---- MODULE Spec2Model ----
(***************************************************************************)
(* Cart normalization engine of the Dr. Donut drive-thru ordering system.  *)
(* Part 1: arithmetic, strings, CartItem, Cart and CartEvaluator           *)
(* (src/cart_engine.py).                                                   *)
(***************************************************************************)
EXTENDS Integers, Sequences, FiniteSets, TLC

(***************************************************************************)
(* Bounds of the model.                                                    *)
(***************************************************************************)
\* Python floats are IEEE-754 binary64.  The model keeps the format's
\* behaviour (round to nearest, ties to even, after every operation) with a
\* significand of SigBits bits and values counted in units of 2^-FracBits.
SigBits == 13
FracBits == 11
\* largest number of lines a cart holds in the cart specification
MaxItems == 3
\* largest quantity of a line handed to the cart operations
MaxQuantity == 3
\* number of Cart and CartEvaluator calls the caller makes
MaxOps == 4

(***************************************************************************)
(* Floating point.                                                         *)
(***************************************************************************)
RECURSIVE Pow2(_)
Pow2(n) == IF n = 0 THEN 1 ELSE 2 * Pow2(n - 1)

RECURSIVE FlExp(_, _, _)
\* least e >= 0 with num / (den * 2^e) < 2^SigBits
FlExp(num, den, e) ==
    IF num < den * Pow2(e) * Pow2(SigBits) THEN e ELSE FlExp(num, den, e + 1)

\* num/den >= 0 rounded to the nearest representable value, ties to even
RoundRat(num, den) ==
    LET e     == FlExp(num, den, 0)
        scale == den * Pow2(e)
        q     == num \div scale
        r     == num % scale
        up    == (2 * r > scale) \/ (2 * r = scale /\ q % 2 = 1)
    IN  (IF up THEN q + 1 ELSE q) * Pow2(e)

FlRound(n) == IF n < 0 THEN 0 - RoundRat(0 - n, 1) ELSE RoundRat(n, 1)

FlAdd(a, b) == FlRound(a + b)
FlSub(a, b) == FlRound(a - b)
\* price * quantity: the int operand converts exactly
FlMul(a, k) == FlRound(a * k)

\* the float a decimal literal in cents denotes (1.09 is Dec(109))
Dec(cents) == RoundRat(cents * Pow2(FracBits), 100)

(***************************************************************************)
(* Strings.  A Python str is a sequence of characters; a character is      *)
(* named by a one-element string ("sup2" names U+00B2, SUPERSCRIPT TWO).   *)
(* Spell gives the characters of every string literal the model uses.      *)
(***************************************************************************)
Spell ==
    ("COF001" :> <<"C", "O", "F", "0", "0", "1">>) @@
    ("COF002" :> <<"C", "O", "F", "0", "0", "2">>) @@
    ("COF005" :> <<"C", "O", "F", "0", "0", "5">>) @@
    ("DON001" :> <<"D", "O", "N", "0", "0", "1">>) @@
    ("DON002" :> <<"D", "O", "N", "0", "0", "2">>) @@
    ("DON003" :> <<"D", "O", "N", "0", "0", "3">>) @@
    ("small" :> <<"s", "m", "a", "l", "l">>) @@
    ("medium" :> <<"m", "e", "d", "i", "u", "m">>) @@
    ("large" :> <<"l", "a", "r", "g", "e">>) @@
    ("cream" :> <<"c", "r", "e", "a", "m">>) @@
    ("sugar" :> <<"s", "u", "g", "a", "r">>) @@
    ("milk" :> <<"m", "i", "l", "k">>) @@
    ("sprinkles" :> <<"s", "p", "r", "i", "n", "k", "l", "e", "s">>) @@
    ("actually" :> <<"a", "c", "t", "u", "a", "l", "l", "y">>) @@
    ("instead" :> <<"i", "n", "s", "t", "e", "a", "d">>) @@
    ("change" :> <<"c", "h", "a", "n", "g", "e">>) @@
    ("make that" :> <<"m", "a", "k", "e", " ", "t", "h", "a", "t">>) @@
    ("switch" :> <<"s", "w", "i", "t", "c", "h">>) @@
    ("s" :> <<"s">>) @@
    ("sm" :> <<"s", "m">>) @@
    ("regular" :> <<"r", "e", "g", "u", "l", "a", "r">>) @@
    ("m" :> <<"m">>) @@
    ("med" :> <<"m", "e", "d">>) @@
    ("l" :> <<"l">>) @@
    ("lg" :> <<"l", "g">>) @@
    ("big" :> <<"b", "i", "g">>) @@
    ("donuts" :> <<"d", "o", "n", "u", "t", "s">>) @@
    ("coffee" :> <<"c", "o", "f", "f", "e", "e">>) @@
    ("Pumpkin Spice Iced Doughnut" :> <<"P", "u", "m", "p", "k", "i", "n", " ", "S", "p", "i", "c", "e", " ", "I", "c", "e", "d", " ", "D", "o", "u", "g", "h", "n", "u", "t">>) @@
    ("pumpkin spice donut" :> <<"p", "u", "m", "p", "k", "i", "n", " ", "s", "p", "i", "c", "e", " ", "d", "o", "n", "u", "t">>) @@
    ("pumpkin donut" :> <<"p", "u", "m", "p", "k", "i", "n", " ", "d", "o", "n", "u", "t">>) @@
    ("ps donut" :> <<"p", "s", " ", "d", "o", "n", "u", "t">>) @@
    ("pumpkin iced" :> <<"p", "u", "m", "p", "k", "i", "n", " ", "i", "c", "e", "d">>) @@
    ("Chocolate Iced Doughnut" :> <<"C", "h", "o", "c", "o", "l", "a", "t", "e", " ", "I", "c", "e", "d", " ", "D", "o", "u", "g", "h", "n", "u", "t">>) @@
    ("chocolate donut" :> <<"c", "h", "o", "c", "o", "l", "a", "t", "e", " ", "d", "o", "n", "u", "t">>) @@
    ("choc donut" :> <<"c", "h", "o", "c", " ", "d", "o", "n", "u", "t">>) @@
    ("chocolate glazed" :> <<"c", "h", "o", "c", "o", "l", "a", "t", "e", " ", "g", "l", "a", "z", "e", "d">>) @@
    ("with sprinkles" :> <<"w", "i", "t", "h", " ", "s", "p", "r", "i", "n", "k", "l", "e", "s">>) @@
    ("sprinkled" :> <<"s", "p", "r", "i", "n", "k", "l", "e", "d">>) @@
    ("Raspberry Filled Doughnut" :> <<"R", "a", "s", "p", "b", "e", "r", "r", "y", " ", "F", "i", "l", "l", "e", "d", " ", "D", "o", "u", "g", "h", "n", "u", "t">>) @@
    ("raspberry donut" :> <<"r", "a", "s", "p", "b", "e", "r", "r", "y", " ", "d", "o", "n", "u", "t">>) @@
    ("raspberry filled" :> <<"r", "a", "s", "p", "b", "e", "r", "r", "y", " ", "f", "i", "l", "l", "e", "d">>) @@
    ("rasp filled" :> <<"r", "a", "s", "p", " ", "f", "i", "l", "l", "e", "d">>) @@
    ("Regular Brewed Coffee" :> <<"R", "e", "g", "u", "l", "a", "r", " ", "B", "r", "e", "w", "e", "d", " ", "C", "o", "f", "f", "e", "e">>) @@
    ("regular coffee" :> <<"r", "e", "g", "u", "l", "a", "r", " ", "c", "o", "f", "f", "e", "e">>) @@
    ("brewed coffee" :> <<"b", "r", "e", "w", "e", "d", " ", "c", "o", "f", "f", "e", "e">>) @@
    ("black coffee" :> <<"b", "l", "a", "c", "k", " ", "c", "o", "f", "f", "e", "e">>) @@
    ("with cream" :> <<"w", "i", "t", "h", " ", "c", "r", "e", "a", "m">>) @@
    ("creamer" :> <<"c", "r", "e", "a", "m", "e", "r">>) @@
    ("sweet" :> <<"s", "w", "e", "e", "t">>) @@
    ("Pumpkin Spice Latte" :> <<"P", "u", "m", "p", "k", "i", "n", " ", "S", "p", "i", "c", "e", " ", "L", "a", "t", "t", "e">>) @@
    ("pumpkin spice latte" :> <<"p", "u", "m", "p", "k", "i", "n", " ", "s", "p", "i", "c", "e", " ", "l", "a", "t", "t", "e">>) @@
    ("psl" :> <<"p", "s", "l">>) @@
    ("pumpkin latte" :> <<"p", "u", "m", "p", "k", "i", "n", " ", "l", "a", "t", "t", "e">>) @@
    ("ps latte" :> <<"p", "s", " ", "l", "a", "t", "t", "e">>) @@
    ("extra shot" :> <<"e", "x", "t", "r", "a", " ", "s", "h", "o", "t">>) @@
    ("whip" :> <<"w", "h", "i", "p">>) @@
    ("no whip" :> <<"n", "o", " ", "w", "h", "i", "p">>) @@
    ("almond milk" :> <<"a", "l", "m", "o", "n", "d", " ", "m", "i", "l", "k">>) @@
    ("oat milk" :> <<"o", "a", "t", " ", "m", "i", "l", "k">>) @@
    ("whipped cream" :> <<"w", "h", "i", "p", "p", "e", "d", " ", "c", "r", "e", "a", "m">>) @@
    ("no whipped cream" :> <<"n", "o", " ", "w", "h", "i", "p", "p", "e", "d", " ", "c", "r", "e", "a", "m">>) @@
    ("short" :> <<"s", "h", "o", "r", "t">>) @@
    ("grande" :> <<"g", "r", "a", "n", "d", "e">>) @@
    ("venti" :> <<"v", "e", "n", "t", "i">>) @@
    ("extra large" :> <<"e", "x", "t", "r", "a", " ", "l", "a", "r", "g", "e">>) @@
    ("xl" :> <<"x", "l">>) @@
    ("x-large" :> <<"x", "-", "l", "a", "r", "g", "e">>) @@
    ("pumpkin spice" :> <<"p", "u", "m", "p", "k", "i", "n", " ", "s", "p", "i", "c", "e">>) @@
    ("pumpkin glazed" :> <<"p", "u", "m", "p", "k", "i", "n", " ", "g", "l", "a", "z", "e", "d">>) @@
    ("ps iced" :> <<"p", "s", " ", "i", "c", "e", "d">>) @@
    ("Pumpkin Spice Cake Doughnut" :> <<"P", "u", "m", "p", "k", "i", "n", " ", "S", "p", "i", "c", "e", " ", "C", "a", "k", "e", " ", "D", "o", "u", "g", "h", "n", "u", "t">>) @@
    ("pumpkin cake donut" :> <<"p", "u", "m", "p", "k", "i", "n", " ", "c", "a", "k", "e", " ", "d", "o", "n", "u", "t">>) @@
    ("pumpkin cake" :> <<"p", "u", "m", "p", "k", "i", "n", " ", "c", "a", "k", "e">>) @@
    ("ps cake" :> <<"p", "s", " ", "c", "a", "k", "e">>) @@
    ("pumpkin spice cake" :> <<"p", "u", "m", "p", "k", "i", "n", " ", "s", "p", "i", "c", "e", " ", "c", "a", "k", "e">>) @@
    ("cake donut pumpkin" :> <<"c", "a", "k", "e", " ", "d", "o", "n", "u", "t", " ", "p", "u", "m", "p", "k", "i", "n">>) @@
    ("Old Fashioned Doughnut" :> <<"O", "l", "d", " ", "F", "a", "s", "h", "i", "o", "n", "e", "d", " ", "D", "o", "u", "g", "h", "n", "u", "t">>) @@
    ("old fashioned" :> <<"o", "l", "d", " ", "f", "a", "s", "h", "i", "o", "n", "e", "d">>) @@
    ("old fashioned donut" :> <<"o", "l", "d", " ", "f", "a", "s", "h", "i", "o", "n", "e", "d", " ", "d", "o", "n", "u", "t">>) @@
    ("old fashioned doughnut" :> <<"o", "l", "d", " ", "f", "a", "s", "h", "i", "o", "n", "e", "d", " ", "d", "o", "u", "g", "h", "n", "u", "t">>) @@
    ("old fashion" :> <<"o", "l", "d", " ", "f", "a", "s", "h", "i", "o", "n">>) @@
    ("plain cake donut" :> <<"p", "l", "a", "i", "n", " ", "c", "a", "k", "e", " ", "d", "o", "n", "u", "t">>) @@
    ("DON004" :> <<"D", "O", "N", "0", "0", "4">>) @@
    ("chocolate iced" :> <<"c", "h", "o", "c", "o", "l", "a", "t", "e", " ", "i", "c", "e", "d">>) @@
    ("choc iced" :> <<"c", "h", "o", "c", " ", "i", "c", "e", "d">>) @@
    ("chocolate" :> <<"c", "h", "o", "c", "o", "l", "a", "t", "e">>) @@
    ("choc" :> <<"c", "h", "o", "c">>) @@
    ("rainbow sprinkles" :> <<"r", "a", "i", "n", "b", "o", "w", " ", "s", "p", "r", "i", "n", "k", "l", "e", "s">>) @@
    ("colored sprinkles" :> <<"c", "o", "l", "o", "r", "e", "d", " ", "s", "p", "r", "i", "n", "k", "l", "e", "s">>) @@
    ("DON005" :> <<"D", "O", "N", "0", "0", "5">>) @@
    ("raspberry jelly" :> <<"r", "a", "s", "p", "b", "e", "r", "r", "y", " ", "j", "e", "l", "l", "y">>) @@
    ("raspberry jam" :> <<"r", "a", "s", "p", "b", "e", "r", "r", "y", " ", "j", "a", "m">>) @@
    ("rasp" :> <<"r", "a", "s", "p">>) @@
    ("raspberry" :> <<"r", "a", "s", "p", "b", "e", "r", "r", "y">>) @@
    ("DON006" :> <<"D", "O", "N", "0", "0", "6">>) @@
    ("Blueberry Cake Doughnut" :> <<"B", "l", "u", "e", "b", "e", "r", "r", "y", " ", "C", "a", "k", "e", " ", "D", "o", "u", "g", "h", "n", "u", "t">>) @@
    ("blueberry donut" :> <<"b", "l", "u", "e", "b", "e", "r", "r", "y", " ", "d", "o", "n", "u", "t">>) @@
    ("blueberry cake" :> <<"b", "l", "u", "e", "b", "e", "r", "r", "y", " ", "c", "a", "k", "e">>) @@
    ("blueberry" :> <<"b", "l", "u", "e", "b", "e", "r", "r", "y">>) @@
    ("blueberry cake donut" :> <<"b", "l", "u", "e", "b", "e", "r", "r", "y", " ", "c", "a", "k", "e", " ", "d", "o", "n", "u", "t">>) @@
    ("DON007" :> <<"D", "O", "N", "0", "0", "7">>) @@
    ("Strawberry Iced Doughnut with Sprinkles" :> <<"S", "t", "r", "a", "w", "b", "e", "r", "r", "y", " ", "I", "c", "e", "d", " ", "D", "o", "u", "g", "h", "n", "u", "t", " ", "w", "i", "t", "h", " ", "S", "p", "r", "i", "n", "k", "l", "e", "s">>) @@
    ("strawberry donut" :> <<"s", "t", "r", "a", "w", "b", "e", "r", "r", "y", " ", "d", "o", "n", "u", "t">>) @@
    ("strawberry iced" :> <<"s", "t", "r", "a", "w", "b", "e", "r", "r", "y", " ", "i", "c", "e", "d">>) @@
    ("strawberry glazed" :> <<"s", "t", "r", "a", "w", "b", "e", "r", "r", "y", " ", "g", "l", "a", "z", "e", "d">>) @@
    ("strawberry" :> <<"s", "t", "r", "a", "w", "b", "e", "r", "r", "y">>) @@
    ("strawberry with sprinkles" :> <<"s", "t", "r", "a", "w", "b", "e", "r", "r", "y", " ", "w", "i", "t", "h", " ", "s", "p", "r", "i", "n", "k", "l", "e", "s">>) @@
    ("strawberry sprinkled" :> <<"s", "t", "r", "a", "w", "b", "e", "r", "r", "y", " ", "s", "p", "r", "i", "n", "k", "l", "e", "d">>) @@
    ("DON008" :> <<"D", "O", "N", "0", "0", "8">>) @@
    ("Lemon Filled Doughnut" :> <<"L", "e", "m", "o", "n", " ", "F", "i", "l", "l", "e", "d", " ", "D", "o", "u", "g", "h", "n", "u", "t">>) @@
    ("lemon donut" :> <<"l", "e", "m", "o", "n", " ", "d", "o", "n", "u", "t">>) @@
    ("lemon filled" :> <<"l", "e", "m", "o", "n", " ", "f", "i", "l", "l", "e", "d">>) @@
    ("lemon jelly" :> <<"l", "e", "m", "o", "n", " ", "j", "e", "l", "l", "y">>) @@
    ("lemon jam" :> <<"l", "e", "m", "o", "n", " ", "j", "a", "m">>) @@
    ("lemon" :> <<"l", "e", "m", "o", "n">>) @@
    ("DON009" :> <<"D", "O", "N", "0", "0", "9">>) @@
    ("Doughnut Holes" :> <<"D", "o", "u", "g", "h", "n", "u", "t", " ", "H", "o", "l", "e", "s">>) @@
    ("donut holes" :> <<"d", "o", "n", "u", "t", " ", "h", "o", "l", "e", "s">>) @@
    ("donut holes dozen" :> <<"d", "o", "n", "u", "t", " ", "h", "o", "l", "e", "s", " ", "d", "o", "z", "e", "n">>) @@
    ("holes" :> <<"h", "o", "l", "e", "s">>) @@
    ("munchkins" :> <<"m", "u", "n", "c", "h", "k", "i", "n", "s">>) @@
    ("donut munchkins" :> <<"d", "o", "n", "u", "t", " ", "m", "u", "n", "c", "h", "k", "i", "n", "s">>) @@
    ("Pumpkin Spice Coffee" :> <<"P", "u", "m", "p", "k", "i", "n", " ", "S", "p", "i", "c", "e", " ", "C", "o", "f", "f", "e", "e">>) @@
    ("pumpkin spice coffee" :> <<"p", "u", "m", "p", "k", "i", "n", " ", "s", "p", "i", "c", "e", " ", "c", "o", "f", "f", "e", "e">>) @@
    ("ps coffee" :> <<"p", "s", " ", "c", "o", "f", "f", "e", "e">>) @@
    ("pumpkin coffee" :> <<"p", "u", "m", "p", "k", "i", "n", " ", "c", "o", "f", "f", "e", "e">>) @@
    ("pumpkin brew" :> <<"p", "u", "m", "p", "k", "i", "n", " ", "b", "r", "e", "w">>) @@
    ("COF003" :> <<"C", "O", "F", "0", "0", "3">>) @@
    ("house coffee" :> <<"h", "o", "u", "s", "e", " ", "c", "o", "f", "f", "e", "e">>) @@
    ("drip coffee" :> <<"d", "r", "i", "p", " ", "c", "o", "f", "f", "e", "e">>) @@
    ("COF004" :> <<"C", "O", "F", "0", "0", "4">>) @@
    ("Decaf Brewed Coffee" :> <<"D", "e", "c", "a", "f", " ", "B", "r", "e", "w", "e", "d", " ", "C", "o", "f", "f", "e", "e">>) @@
    ("decaf" :> <<"d", "e", "c", "a", "f">>) @@
    ("decaf coffee" :> <<"d", "e", "c", "a", "f", " ", "c", "o", "f", "f", "e", "e">>) @@
    ("decaffeinated" :> <<"d", "e", "c", "a", "f", "f", "e", "i", "n", "a", "t", "e", "d">>) @@
    ("decaf brewed" :> <<"d", "e", "c", "a", "f", " ", "b", "r", "e", "w", "e", "d">>) @@
    ("Latte" :> <<"L", "a", "t", "t", "e">>) @@
    ("latte" :> <<"l", "a", "t", "t", "e">>) @@
    ("cafe latte" :> <<"c", "a", "f", "e", " ", "l", "a", "t", "t", "e">>) @@
    ("coffee latte" :> <<"c", "o", "f", "f", "e", "e", " ", "l", "a", "t", "t", "e">>) @@
    ("skim milk" :> <<"s", "k", "i", "m", " ", "m", "i", "l", "k">>) @@
    ("whole milk" :> <<"w", "h", "o", "l", "e", " ", "m", "i", "l", "k">>) @@
    ("almond" :> <<"a", "l", "m", "o", "n", "d">>) @@
    ("oat" :> <<"o", "a", "t">>) @@
    ("skim" :> <<"s", "k", "i", "m">>) @@
    ("COF006" :> <<"C", "O", "F", "0", "0", "6">>) @@
    ("Cappuccino" :> <<"C", "a", "p", "p", "u", "c", "c", "i", "n", "o">>) @@
    ("cappuccino" :> <<"c", "a", "p", "p", "u", "c", "c", "i", "n", "o">>) @@
    ("capp" :> <<"c", "a", "p", "p">>) @@
    ("cappucino" :> <<"c", "a", "p", "p", "u", "c", "i", "n", "o">>) @@
    ("COF007" :> <<"C", "O", "F", "0", "0", "7">>) @@
    ("Caramel Macchiato" :> <<"C", "a", "r", "a", "m", "e", "l", " ", "M", "a", "c", "c", "h", "i", "a", "t", "o">>) @@
    ("caramel macchiato" :> <<"c", "a", "r", "a", "m", "e", "l", " ", "m", "a", "c", "c", "h", "i", "a", "t", "o">>) @@
    ("caramel mac" :> <<"c", "a", "r", "a", "m", "e", "l", " ", "m", "a", "c">>) @@
    ("caramel mach" :> <<"c", "a", "r", "a", "m", "e", "l", " ", "m", "a", "c", "h">>) @@
    ("macchiato" :> <<"m", "a", "c", "c", "h", "i", "a", "t", "o">>) @@
    ("extra caramel" :> <<"e", "x", "t", "r", "a", " ", "c", "a", "r", "a", "m", "e", "l">>) @@
    ("COF008" :> <<"C", "O", "F", "0", "0", "8">>) @@
    ("Mocha Latte" :> <<"M", "o", "c", "h", "a", " ", "L", "a", "t", "t", "e">>) @@
    ("mocha" :> <<"m", "o", "c", "h", "a">>) @@
    ("mocha latte" :> <<"m", "o", "c", "h", "a", " ", "l", "a", "t", "t", "e">>) @@
    ("chocolate latte" :> <<"c", "h", "o", "c", "o", "l", "a", "t", "e", " ", "l", "a", "t", "t", "e">>) @@
    ("choc latte" :> <<"c", "h", "o", "c", " ", "l", "a", "t", "t", "e">>) @@
    ("COF009" :> <<"C", "O", "F", "0", "0", "9">>) @@
    ("Caramel Mocha Latte" :> <<"C", "a", "r", "a", "m", "e", "l", " ", "M", "o", "c", "h", "a", " ", "L", "a", "t", "t", "e">>) @@
    ("caramel mocha" :> <<"c", "a", "r", "a", "m", "e", "l", " ", "m", "o", "c", "h", "a">>) @@
    ("caramel mocha latte" :> <<"c", "a", "r", "a", "m", "e", "l", " ", "m", "o", "c", "h", "a", " ", "l", "a", "t", "t", "e">>) @@
    ("caramel choc latte" :> <<"c", "a", "r", "a", "m", "e", "l", " ", "c", "h", "o", "c", " ", "l", "a", "t", "t", "e">>) @@
    ("one" :> <<"o", "n", "e">>) @@
    ("two" :> <<"t", "w", "o">>) @@
    ("three" :> <<"t", "h", "r", "e", "e">>) @@
    ("four" :> <<"f", "o", "u", "r">>) @@
    ("five" :> <<"f", "i", "v", "e">>) @@
    ("six" :> <<"s", "i", "x">>) @@
    ("seven" :> <<"s", "e", "v", "e", "n">>) @@
    ("eight" :> <<"e", "i", "g", "h", "t">>) @@
    ("nine" :> <<"n", "i", "n", "e">>) @@
    ("ten" :> <<"t", "e", "n">>) @@
    ("a" :> <<"a">>) @@
    ("an" :> <<"a", "n">>) @@
    ("cake" :> <<"c", "a", "k", "e">>) @@
    ("donut" :> <<"d", "o", "n", "u", "t">>) @@
    ("pumpkin" :> <<"p", "u", "m", "p", "k", "i", "n">>) @@
    ("spice" :> <<"s", "p", "i", "c", "e">>) @@
    ("brewed" :> <<"b", "r", "e", "w", "e", "d">>) @@
    ("coffees" :> <<"c", "o", "f", "f", "e", "e", "s">>) @@
    ("with" :> <<"w", "i", "t", "h">>) @@
    ("and" :> <<"a", "n", "d">>) @@
    ("!!!" :> <<"!", "!", "!">>) @@
    ("hello" :> <<"h", "e", "l", "l", "o">>) @@
    ("Coffee!" :> <<"C", "o", "f", "f", "e", "e", "!">>) @@
    ("make" :> <<"m", "a", "k", "e">>) @@
    ("that" :> <<"t", "h", "a", "t">>) @@
    ("0" :> <<"0">>) @@
    ("12" :> <<"1", "2">>) @@
    ("sup2" :> <<"sup2">>) @@
    ("please" :> <<"p", "l", "e", "a", "s", "e">>) @@
    ("add" :> <<"a", "d", "d">>) @@
    ("regular brewed coffee" :> <<"r", "e", "g", "u", "l", "a", "r", " ", "b", "r", "e", "w", "e", "d", " ", "c", "o", "f", "f", "e", "e">>) @@
    ("Coffee" :> <<"C", "o", "f", "f", "e", "e">>) @@
    ("With Cream" :> <<"W", "i", "t", "h", " ", "C", "r", "e", "a", "m">>) @@
    ("black" :> <<"b", "l", "a", "c", "k">>) @@
    ("zero" :> <<"z", "e", "r", "o">>) @@
    ("no" :> <<"n", "o">>) @@
    ("none" :> <<"n", "o", "n", "e">>) @@
    ("single" :> <<"s", "i", "n", "g", "l", "e">>) @@
    ("eleven" :> <<"e", "l", "e", "v", "e", "n">>) @@
    ("twelve" :> <<"t", "w", "e", "l", "v", "e">>) @@
    ("dozen" :> <<"d", "o", "z", "e", "n">>) @@
    ("iced" :> <<"i", "c", "e", "d">>) @@
    ("doughnut" :> <<"d", "o", "u", "g", "h", "n", "u", "t">>) @@
    ("filled" :> <<"f", "i", "l", "l", "e", "d">>) @@
    ("removed" :> <<"r", "e", "m", "o", "v", "e", "d">>) @@
    ("removing" :> <<"r", "e", "m", "o", "v", "i", "n", "g">>) @@
    ("taking out" :> <<"t", "a", "k", "i", "n", "g", " ", "o", "u", "t">>) @@
    ("now you just have" :> <<"n", "o", "w", " ", "y", "o", "u", " ", "j", "u", "s", "t", " ", "h", "a", "v", "e">>) @@
    ("only have" :> <<"o", "n", "l", "y", " ", "h", "a", "v", "e">>) @@
    ("took off" :> <<"t", "o", "o", "k", " ", "o", "f", "f">>) @@
    ("deleted" :> <<"d", "e", "l", "e", "t", "e", "d">>) @@
    ("now you have" :> <<"n", "o", "w", " ", "y", "o", "u", " ", "h", "a", "v", "e">>) @@
    ("your order is now" :> <<"y", "o", "u", "r", " ", "o", "r", "d", "e", "r", " ", "i", "s", " ", "n", "o", "w">>) @@
    ("you only have" :> <<"y", "o", "u", " ", "o", "n", "l", "y", " ", "h", "a", "v", "e">>) @@
    ("that leaves you with" :> <<"t", "h", "a", "t", " ", "l", "e", "a", "v", "e", "s", " ", "y", "o", "u", " ", "w", "i", "t", "h">>) @@
    ("lattes" :> <<"l", "a", "t", "t", "e", "s">>) @@
    ("doughnuts" :> <<"d", "o", "u", "g", "h", "n", "u", "t", "s">>) @@
    ("the" :> <<"t", "h", "e">>) @@
    ("i" :> <<"i">>) @@
    ("took" :> <<"t", "o", "o", "k">>) @@
    ("off" :> <<"o", "f", "f">>) @@
    ("ok" :> <<"o", "k">>) @@
    ("now" :> <<"n", "o", "w">>) @@
    ("you" :> <<"y", "o", "u">>) @@
    ("have" :> <<"h", "a", "v", "e">>) @@
    ("just" :> <<"j", "u", "s", "t">>) @@
    ("your" :> <<"y", "o", "u", "r">>) @@
    ("order" :> <<"o", "r", "d", "e", "r">>) @@
    ("is" :> <<"i", "s">>) @@
    ("nothing" :> <<"n", "o", "t", "h", "i", "n", "g">>) @@
    ("3" :> <<"3">>) @@
    ("I need" :> <<"I", " ", "n", "e", "e", "d">>) @@
    ("I want" :> <<"I", " ", "w", "a", "n", "t">>) @@
    ("I would like" :> <<"I", " ", "w", "o", "u", "l", "d", " ", "l", "i", "k", "e">>) @@
    ("I'd like" :> <<"I", "'", "d", " ", "l", "i", "k", "e">>) @@
    ("I'll have" :> <<"I", "'", "l", "l", " ", "h", "a", "v", "e">>) @@
    ("I'll take" :> <<"I", "'", "l", "l", " ", "t", "a", "k", "e">>) @@
    ("abort" :> <<"a", "b", "o", "r", "t">>) @@
    ("can I get" :> <<"c", "a", "n", " ", "I", " ", "g", "e", "t">>) @@
    ("cancel" :> <<"c", "a", "n", "c", "e", "l">>) @@
    ("change my mind" :> <<"c", "h", "a", "n", "g", "e", " ", "m", "y", " ", "m", "i", "n", "d">>) @@
    ("confirm" :> <<"c", "o", "n", "f", "i", "r", "m">>) @@
    ("confirm my order" :> <<"c", "o", "n", "f", "i", "r", "m", " ", "m", "y", " ", "o", "r", "d", "e", "r">>) @@
    ("confirm the order" :> <<"c", "o", "n", "f", "i", "r", "m", " ", "t", "h", "e", " ", "o", "r", "d", "e", "r">>) @@
    ("correct" :> <<"c", "o", "r", "r", "e", "c", "t">>) @@
    ("cost" :> <<"c", "o", "s", "t">>) @@
    ("could I get" :> <<"c", "o", "u", "l", "d", " ", "I", " ", "g", "e", "t">>) @@
    ("delete" :> <<"d", "e", "l", "e", "t", "e">>) @@
    ("do I have" :> <<"d", "o", " ", "I", " ", "h", "a", "v", "e">>) @@
    ("don't have" :> <<"d", "o", "n", "'", "t", " ", "h", "a", "v", "e">>) @@
    ("don't need" :> <<"d", "o", "n", "'", "t", " ", "n", "e", "e", "d">>) @@
    ("don't want" :> <<"d", "o", "n", "'", "t", " ", "w", "a", "n", "t">>) @@
    ("finalize" :> <<"f", "i", "n", "a", "l", "i", "z", "e">>) @@
    ("forget" :> <<"f", "o", "r", "g", "e", "t">>) @@
    ("forget it" :> <<"f", "o", "r", "g", "e", "t", " ", "i", "t">>) @@
    ("get" :> <<"g", "e", "t">>) @@
    ("give" :> <<"g", "i", "v", "e">>) @@
    ("go ahead" :> <<"g", "o", " ", "a", "h", "e", "a", "d">>) @@
    ("how many" :> <<"h", "o", "w", " ", "m", "a", "n", "y">>) @@
    ("how much" :> <<"h", "o", "w", " ", "m", "u", "c", "h">>) @@
    ("like" :> <<"l", "i", "k", "e">>) @@
    ("make it" :> <<"m", "a", "k", "e", " ", "i", "t">>) @@
    ("may I have" :> <<"m", "a", "y", " ", "I", " ", "h", "a", "v", "e">>) @@
    ("modify" :> <<"m", "o", "d", "i", "f", "y">>) @@
    ("need" :> <<"n", "e", "e", "d">>) @@
    ("never mind" :> <<"n", "e", "v", "e", "r", " ", "m", "i", "n", "d">>) @@
    ("not" :> <<"n", "o", "t">>) @@
    ("pay" :> <<"p", "a", "y">>) @@
    ("perfect" :> <<"p", "e", "r", "f", "e", "c", "t">>) @@
    ("place order" :> <<"p", "l", "a", "c", "e", " ", "o", "r", "d", "e", "r">>) @@
    ("place the order" :> <<"p", "l", "a", "c", "e", " ", "t", "h", "e", " ", "o", "r", "d", "e", "r">>) @@
    ("price" :> <<"p", "r", "i", "c", "e">>) @@
    ("proceed" :> <<"p", "r", "o", "c", "e", "e", "d">>) @@
    ("query" :> <<"q", "u", "e", "r", "y">>) @@
    ("remove" :> <<"r", "e", "m", "o", "v", "e">>) @@
    ("replace" :> <<"r", "e", "p", "l", "a", "c", "e">>) @@
    ("right" :> <<"r", "i", "g", "h", "t">>) @@
    ("scratch" :> <<"s", "c", "r", "a", "t", "c", "h">>) @@
    ("show me" :> <<"s", "h", "o", "w", " ", "m", "e">>) @@
    ("sounds good" :> <<"s", "o", "u", "n", "d", "s", " ", "g", "o", "o", "d">>) @@
    ("stop" :> <<"s", "t", "o", "p">>) @@
    ("take" :> <<"t", "a", "k", "e">>) @@
    ("take off" :> <<"t", "a", "k", "e", " ", "o", "f", "f">>) @@
    ("take out" :> <<"t", "a", "k", "e", " ", "o", "u", "t">>) @@
    ("that's right" :> <<"t", "h", "a", "t", "'", "s", " ", "r", "i", "g", "h", "t">>) @@
    ("total" :> <<"t", "o", "t", "a", "l">>) @@
    ("unknown" :> <<"u", "n", "k", "n", "o", "w", "n">>) @@
    ("update" :> <<"u", "p", "d", "a", "t", "e">>) @@
    ("want" :> <<"w", "a", "n", "t">>) @@
    ("what" :> <<"w", "h", "a", "t">>) @@
    ("what's in" :> <<"w", "h", "a", "t", "'", "s", " ", "i", "n">>) @@
    ("without" :> <<"w", "i", "t", "h", "o", "u", "t">>) @@
    ("yeah" :> <<"y", "e", "a", "h">>) @@
    ("yep" :> <<"y", "e", "p">>) @@
    ("yes" :> <<"y", "e", "s">>) @@
    ("delete all" :> <<"d", "e", "l", "e", "t", "e", " ", "a", "l", "l">>) @@
    ("just keep" :> <<"j", "u", "s", "t", " ", "k", "e", "e", "p">>) @@
    ("keep only" :> <<"k", "e", "e", "p", " ", "o", "n", "l", "y">>) @@
    ("only keep" :> <<"o", "n", "l", "y", " ", "k", "e", "e", "p">>) @@
    ("remove all" :> <<"r", "e", "m", "o", "v", "e", " ", "a", "l", "l">>) @@
    ("take out all" :> <<"t", "a", "k", "e", " ", "o", "u", "t", " ", "a", "l", "l">>) @@
    ("Cart" :> <<"C", "a", "r", "t">>) @@
    ("I" :> <<"I">>) @@
    ("all" :> <<"a", "l", "l">>) @@
    ("don't" :> <<"d", "o", "n", "'", "t">>) @@
    ("it" :> <<"i", "t">>) @@
    ("keep" :> <<"k", "e", "e", "p">>) @@
    ("mind" :> <<"m", "i", "n", "d">>) @@
    ("never" :> <<"n", "e", "v", "e", "r">>) @@
    ("nlp" :> <<"n", "l", "p">>) @@
    ("out" :> <<"o", "u", "t">>) @@
    ("process_cart_operation" :> <<"p", "r", "o", "c", "e", "s", "s", "_", "c", "a", "r", "t", "_", "o", "p", "e", "r", "a", "t", "i", "o", "n">>) @@
    ("to" :> <<"t", "o">>) @@
    ("" :> <<>>)

ToSet(seq) == {seq[i] : i \in DOMAIN seq}

DigitSeq == <<"0", "1", "2", "3", "4", "5", "6", "7", "8", "9">>
UpperSeq ==
    <<"A", "B", "C", "D", "E", "F", "G", "H", "I", "J", "K", "L", "M",
      "N", "O", "P", "Q", "R", "S", "T", "U", "V", "W", "X", "Y", "Z">>
LowerSeq ==
    <<"a", "b", "c", "d", "e", "f", "g", "h", "i", "j", "k", "l", "m",
      "n", "o", "p", "q", "r", "s", "t", "u", "v", "w", "x", "y", "z">>

\* the characters of the model in code point order
Alphabet == <<" ", "!", "'", "-">> \o DigitSeq \o UpperSeq \o LowerSeq \o <<"sup2">>

Ord(c) == CHOOSE i \in DOMAIN Alphabet : Alphabet[i] = c

\* x < y in the order named by: "char" for characters, "str" for strings,
\* "key" for the sort key of exact_match, "start" for the sort key of
\* found_mentions (defined below, after the orders it names)
RECURSIVE LessBy(_, _, _)

RECURSIVE SeqLessBy(_, _, _)
\* lexicographic order of two sequences, the order named by ordering the
\* elements
SeqLessBy(by, s, t) ==
    IF t = <<>> THEN FALSE
    ELSE IF s = <<>> THEN TRUE
    ELSE IF Head(s) = Head(t) THEN SeqLessBy(by, Tail(s), Tail(t))
    ELSE LessBy(by, Head(s), Head(t))

CharLess(c, d) == Ord(c) < Ord(d)

\* s < t for two Python strings
StrLess(s, t) == SeqLessBy("char", Spell[s], Spell[t])

RECURSIVE InsertSorted(_, _, _)
\* x placed after the last element of the sorted sequence that is not
\* greater than it (a stable insertion)
InsertSorted(by, x, sorted) ==
    IF sorted = <<>> THEN <<x>>
    ELSE IF LessBy(by, x, Head(sorted)) THEN <<x>> \o sorted
    ELSE <<Head(sorted)>> \o InsertSorted(by, x, Tail(sorted))

RECURSIVE SortedBy(_, _)
\* sorted(seq): the stable sort of seq
SortedBy(by, seq) ==
    IF seq = <<>> THEN <<>>
    ELSE InsertSorted(by, seq[Len(seq)], SortedBy(by, SubSeq(seq, 1, Len(seq) - 1)))

(***************************************************************************)
(* CartItem and Cart.                                                      *)
(***************************************************************************)
None == "None"

CartItem(sku, name, quantity, size, modifiers, price) ==
    [sku |-> sku, name |-> name, quantity |-> quantity, size |-> size,
     modifiers |-> modifiers, price |-> price]

\* CartItem.__eq__
ItemEq(a, b) ==
    /\ a.sku = b.sku
    /\ a.size = b.size
    /\ ToSet(a.modifiers) = ToSet(b.modifiers)

\* Cart(): no items, total 0.0
EmptyCart == [items |-> <<>>, total |-> 0]

RECURSIVE SumTotal(_, _)
\* sum(item.price * item.quantity for item in items), from acc
SumTotal(items, acc) ==
    IF items = <<>> THEN acc
    ELSE SumTotal(Tail(items), FlAdd(acc, FlMul(Head(items).price, Head(items).quantity)))

add_item(c, item) ==
    [items |-> Append(c.items, item),
     total |-> FlAdd(c.total, FlMul(item.price, item.quantity))]

\* index is the Python index, counted from 0
remove_item(c, index) ==
    IF 0 <= index /\ index < Len(c.items)
    THEN LET item == c.items[index + 1]
         IN  [items |-> SubSeq(c.items, 1, index) \o SubSeq(c.items, index + 2, Len(c.items)),
              total |-> FlSub(c.total, FlMul(item.price, item.quantity))]
    ELSE c

update_item(c, index, item) ==
    IF 0 <= index /\ index < Len(c.items)
    THEN LET old_item == c.items[index + 1]
         IN  [items |-> [c.items EXCEPT ![index + 1] = item],
              total |-> FlAdd(FlSub(c.total, FlMul(old_item.price, old_item.quantity)),
                              FlMul(item.price, item.quantity))]
    ELSE c

\* the key merge_duplicates groups by
MergeKey(item) == <<item.sku, item.size, SortedBy("str", item.modifiers)>>

RECURSIVE MergeItems_without_sum(_, _)
\* the loop keeping the first line of a key as it is
MergeItems_without_sum(items, merged) ==
    IF items = <<>> THEN merged
    ELSE LET item == Head(items)
             hits == {k \in DOMAIN merged : MergeKey(merged[k]) = MergeKey(item)}
         IN  MergeItems_without_sum(Tail(items),
                                    IF hits # {} THEN merged ELSE Append(merged, item))

RECURSIVE MergeItems(_, _)
\* the loop of merge_duplicates; merged is the dict's values in insertion order
MergeItems(items, merged) ==
    IF items = <<>> THEN merged
    ELSE LET item == Head(items)
             hits == {k \in DOMAIN merged : MergeKey(merged[k]) = MergeKey(item)}
         IN  IF hits # {}
             THEN LET k == CHOOSE k \in hits : TRUE
                  IN  MergeItems(Tail(items),
                                 [merged EXCEPT ![k].quantity = @ + item.quantity])
             ELSE MergeItems(Tail(items), Append(merged, item))

\* merge_duplicates adding the merged lines to the total it finds
merge_duplicates_adds_total(c) ==
    LET merged == MergeItems(c.items, <<>>)
    IN  [items |-> merged, total |-> SumTotal(merged, c.total)]

merge_duplicates(c) ==
    LET merged == MergeItems(c.items, <<>>)
    IN  [items |-> merged, total |-> SumTotal(merged, 0)]

\* round(x, 2): the multiple of 0.01 nearest to x, ties to the even one, as
\* the float that decimal denotes
Round2(x) ==
    LET mag   == IF x < 0 THEN 0 - x ELSE x
        num   == mag * 100
        den   == Pow2(FracBits)
        q     == num \div den
        r     == num % den
        cents == IF 2 * r > den \/ (2 * r = den /\ q % 2 = 1) THEN q + 1 ELSE q
    IN  IF x < 0 THEN 0 - Dec(cents) ELSE Dec(cents)

to_dict(c) ==
    [items |-> [k \in DOMAIN c.items |->
                   [sku |-> c.items[k].sku, name |-> c.items[k].name,
                    quantity |-> c.items[k].quantity, size |-> c.items[k].size,
                    modifiers |-> c.items[k].modifiers, price |-> c.items[k].price]],
     total |-> Round2(c.total)]

(***************************************************************************)
(* CartEvaluator.exact_match.                                              *)
(***************************************************************************)
\* (x.sku, x.size, tuple(x.modifiers)) < (y.sku, y.size, tuple(y.modifiers))
KeyLess(x, y) ==
    IF x.sku # y.sku THEN StrLess(x.sku, y.sku)
    ELSE IF x.size # y.size THEN StrLess(x.size, y.size)
    ELSE SeqLessBy("str", x.modifiers, y.modifiers)

\* sorted() compares a None size with a str size, which raises TypeError,
\* exactly when two items of the list have the same sku and one of them has
\* no size: the items of one sku are adjacent in any sorted order, and a
\* comparison sort compares every two elements it leaves adjacent
SortRaises(items) ==
    \E i, j \in DOMAIN items :
        /\ items[i].sku = items[j].sku
        /\ (items[i].size = None) # (items[j].size = None)

\* the loop over zip(actual_items, expected_items)
PairsMatch(as, es) ==
    \A k \in DOMAIN as :
        ~ ( \/ as[k].sku # es[k].sku
            \/ as[k].quantity # es[k].quantity
            \/ as[k].size # es[k].size
            \/ ToSet(as[k].modifiers) # ToSet(es[k].modifiers) )

\* raised: the call ended in a TypeError; value: the result otherwise
exact_match(actual, expected) ==
    IF Len(actual.items) # Len(expected.items)
    THEN [raised |-> FALSE, value |-> FALSE]
    ELSE IF SortRaises(actual.items) \/ SortRaises(expected.items)
    THEN [raised |-> TRUE, value |-> FALSE]
    ELSE [raised |-> FALSE,
          value  |-> PairsMatch(SortedBy("key", actual.items),
                                SortedBy("key", expected.items))]

\* float(k) for an int k >= 0
FlInt(k) == FlRound(k * Pow2(FracBits))

\* a / b, true division of two ints or floats given in the same unit
FlDiv(a, b) == RoundRat(a * Pow2(FracBits), b)

\* a * b for two floats
FlTimes(a, b) == RoundRat(a * b, Pow2(FracBits))

\* the set the loops of calculate_f1 build: range(item.quantity) is empty
\* for a quantity below 1, and a set keeps one copy of an entry
Entities(items) ==
    { MergeKey(items[k]) : k \in {j \in DOMAIN items : items[j].quantity >= 1} }

\* f1 without the short-circuit for an empty expected set
calculate_f1_general(actual, expected) ==
    CHOOSE f1 \in
      { (LET true_positives  == Cardinality(actual_items \cap expected_items)
             false_positives == Cardinality(actual_items \ expected_items)
             false_negatives == Cardinality(expected_items \ actual_items)
         IN  CHOOSE f \in
               { (IF FlAdd(precision, recall) > 0
                  THEN FlDiv(FlMul(FlTimes(precision, recall), 2), FlAdd(precision, recall))
                  ELSE 0) :
                 precision \in {IF true_positives + false_positives > 0
                                THEN FlDiv(true_positives, true_positives + false_positives)
                                ELSE 0},
                 recall \in {IF true_positives + false_negatives > 0
                             THEN FlDiv(true_positives, true_positives + false_negatives)
                             ELSE 0} } : TRUE) :
        actual_items \in {Entities(actual.items)},
        expected_items \in {Entities(expected.items)} } : TRUE

calculate_f1_without_short_circuit(actual, expected) ==
    calculate_f1_general(actual, expected)

\* the entries kept apart per unit, as a list would keep them
UnitEntities(items) ==
    UNION { { <<MergeKey(items[k]), n>> : n \in 1..items[k].quantity } : k \in DOMAIN items }

\* f1 over units instead of distinct entries
calculate_f1_counting_units(actual, expected) ==
    LET a  == UnitEntities(actual.items)
        e  == UnitEntities(expected.items)
        tp == Cardinality(a \cap e)
        precision == IF Cardinality(a) > 0 THEN FlDiv(tp, Cardinality(a)) ELSE 0
        recall    == IF Cardinality(e) > 0 THEN FlDiv(tp, Cardinality(e)) ELSE 0
    IN  IF e = {} THEN (IF a = {} THEN FlInt(1) ELSE 0)
        ELSE IF FlAdd(precision, recall) > 0
             THEN FlDiv(FlMul(FlTimes(precision, recall), 2), FlAdd(precision, recall))
             ELSE 0

calculate_f1(actual, expected) ==
    IF Entities(expected.items) = {}
    THEN IF Entities(actual.items) = {} THEN FlInt(1) ELSE 0
    ELSE calculate_f1_general(actual, expected)

\* [x] * n
Repeat(x, n) == [k \in 1..n |-> x]

RECURSIVE ExpandSkus(_)
\* the loop "skus.extend([item.sku] * item.quantity)"
ExpandSkus(items) ==
    IF items = <<>> THEN <<>>
    ELSE Repeat(Head(items).sku, Head(items).quantity) \o ExpandSkus(Tail(items))

\* sum(1 for a, e in zip(as, es) if a == e)
CountEqual(as, es) ==
    Cardinality({k \in DOMAIN as \cap DOMAIN es : as[k] = es[k]})

\* item accuracy over the SKUs in cart order
calculate_item_accuracy_unsorted(actual, expected) ==
    LET actual_skus   == ExpandSkus(actual.items)
        expected_skus == ExpandSkus(expected.items)
    IN  IF expected_skus = <<>>
        THEN IF actual_skus = <<>> THEN FlInt(1) ELSE 0
        ELSE FlDiv(CountEqual(actual_skus, expected_skus), Len(expected_skus))

calculate_item_accuracy(actual, expected) ==
    LET actual_skus   == ExpandSkus(actual.items)
        expected_skus == ExpandSkus(expected.items)
    IN  IF expected_skus = <<>>
        THEN IF actual_skus = <<>> THEN FlInt(1) ELSE 0
        ELSE FlDiv(CountEqual(SortedBy("str", actual_skus), SortedBy("str", expected_skus)),
                   Len(expected_skus))

(***************************************************************************)
(* Text: character classes, str methods and the re calls the engine makes. *)
(* Offsets are Python offsets, counted from 0.                             *)
(***************************************************************************)
Digits == ToSet(DigitSeq)
Uppers == ToSet(UpperSeq)
Lowers == ToSet(LowerSeq)

\* \w of a str pattern: letters, digits and the other alphanumerics
IsWordChar(c) == c \in Lowers \cup Uppers \cup Digits \cup {"sup2"}
\* \s
IsSpace(c) == c = " "
\* a character str.isdigit() accepts: a decimal digit or a digit such as U+00B2
IsDigitChar(c) == c \in Digits \cup {"sup2"}

LowerChar(c) ==
    IF c \in Uppers
    THEN LowerSeq[CHOOSE i \in DOMAIN UpperSeq : UpperSeq[i] = c]
    ELSE c

\* str.lower()
LowerStr(text) == [k \in 1..Len(text) |-> LowerChar(text[k])]

Min(S) == CHOOSE x \in S : \A y \in S : x <= y
Max2(a, b) == IF a >= b THEN a ELSE b
Min2(a, b) == IF a <= b THEN a ELSE b

\* text[from:to]
Slice(text, from, to) == SubSeq(text, from + 1, to)

\* str.find(pat): the offset of the first occurrence of pat, or -1
Find(text, pat) ==
    LET hits == {q \in 0..(Len(text) - Len(pat)) : Slice(text, q, q + Len(pat)) = pat}
    IN  IF hits = {} THEN -1 ELSE Min(hits)

\* pat in text
Contains(text, pat) == Find(text, pat) # -1

RECURSIVE SplitFrom(_, _, _)
SplitFrom(text, k, cur) ==
    IF k > Len(text) THEN (IF cur = <<>> THEN <<>> ELSE <<cur>>)
    ELSE IF IsSpace(text[k])
         THEN (IF cur = <<>> THEN <<>> ELSE <<cur>>) \o SplitFrom(text, k + 1, <<>>)
         ELSE SplitFrom(text, k + 1, Append(cur, text[k]))

\* str.split(): the maximal runs of non-whitespace characters
Split(text) == SplitFrom(text, 1, <<>>)

RECURSIVE JoinSpace(_)
\* ' '.join(words)
JoinSpace(words) ==
    IF words = <<>> THEN <<>>
    ELSE IF Len(words) = 1 THEN words[1]
    ELSE words[1] \o <<" ">> \o JoinSpace(Tail(words))

\* \b at offset k: exactly one of the characters before and after is a \w
WordBoundary(text, k) ==
    (k >= 1 /\ IsWordChar(text[k])) # (k < Len(text) /\ IsWordChar(text[k + 1]))

\* \b pat \b matches at offset q
WholeWordAt(text, pat, q) ==
    /\ q + Len(pat) <= Len(text)
    /\ Slice(text, q, q + Len(pat)) = pat
    /\ WordBoundary(text, q)
    /\ WordBoundary(text, q + Len(pat))

RECURSIVE FindIter(_, _, _)
\* re.finditer(r'\b' + re.escape(pat) + r'\b', text): the start offsets of
\* the successive matches, each search starting where the last match ended
FindIter(text, pat, from) ==
    LET hits == {q \in from..(Len(text) - Len(pat)) : WholeWordAt(text, pat, q)}
    IN  IF hits = {} THEN <<>>
        ELSE <<Min(hits)>> \o FindIter(text, pat, Min(hits) + Max2(Len(pat), 1))

\* re.search(r'\b' + re.escape(pat) + r'\b', text) finds a match
SearchWord(text, pat) == FindIter(text, pat, 0) # <<>>

RECURSIVE DeleteSpans(_, _, _)
\* text without the n characters at each of the offsets starts (ascending)
DeleteSpans(text, starts, n) ==
    IF starts = <<>> THEN text
    ELSE LET q == starts[Len(starts)]
         IN  DeleteSpans(Slice(text, 0, q) \o Slice(text, q + n, Len(text)),
                         SubSeq(starts, 1, Len(starts) - 1), n)

\* re.sub(r'\bpat\b', '', text, flags=re.IGNORECASE), pat in lower case
SubDelete(text, pat) == DeleteSpans(text, FindIter(LowerStr(text), pat, 0), Len(pat))

\* re.sub(r'[^\w\s\-\']', ' ', text)
SubPunctuation(text) ==
    [k \in 1..Len(text) |->
        IF IsWordChar(text[k]) \/ IsSpace(text[k]) \/ text[k] \in {"-", "'"}
        THEN text[k] ELSE " "]

normalize_text(text) == LowerStr(JoinSpace(Split(SubPunctuation(text))))

\* the correction phrases of _handle_corrections, in its order
Corrections == <<"actually", "instead", "change", "make that", "switch">>

RECURSIVE ApplyCorrections(_, _)
ApplyCorrections(text, k) ==
    IF k > Len(Corrections) THEN text
    ELSE ApplyCorrections(SubDelete(text, Spell[Corrections[k]]), k + 1)

_handle_corrections(text) == ApplyCorrections(text, 1)

(***************************************************************************)
(* Menu data (src/menu_data.py).  A dict is the sequence of its entries in *)
(* insertion order.                                                        *)
(***************************************************************************)
KV(key, value) == [key |-> key, value |-> value]

DictHas(d, key) == \E k \in DOMAIN d : d[k].key = key
DictGet(d, key) == d[CHOOSE k \in DOMAIN d : d[k].key = key].value
\* d[key] = value: a new key goes last, a known key keeps its place
DictSet(d, key, value) ==
    IF DictHas(d, key)
    THEN [k \in DOMAIN d |-> IF d[k].key = key THEN KV(key, value) ELSE d[k]]
    ELSE Append(d, KV(key, value))

MenuItem(sku, name, category, price, base_price, aliases, size_variations, modifiers, modifier_synonyms) ==
    [sku |-> sku, name |-> name, category |-> category, price |-> price,
     base_price |-> base_price, aliases |-> aliases,
     size_variations |-> size_variations, modifiers |-> modifiers,
     modifier_synonyms |-> modifier_synonyms]

Menu(name, items, size_synonyms, default_sizes) ==
    [name |-> name, items |-> items, size_synonyms |-> size_synonyms,
     default_sizes |-> default_sizes]

SMALL_MENU ==
    Menu("Small Menu",
      <<
        MenuItem("DON001", "Pumpkin Spice Iced Doughnut", "donuts",
            Dec(129), Dec(129),
            <<"pumpkin spice donut", "pumpkin donut", "ps donut", "pumpkin iced">>,
            <<>>,
            <<>>,
            <<>>),
        MenuItem("DON002", "Chocolate Iced Doughnut", "donuts",
            Dec(109), Dec(109),
            <<"chocolate donut", "choc donut", "chocolate glazed">>,
            <<>>,
            <<"sprinkles">>,
            <<KV("with sprinkles", "sprinkles"), KV("sprinkled", "sprinkles")>>),
        MenuItem("DON003", "Raspberry Filled Doughnut", "donuts",
            Dec(109), Dec(109),
            <<"raspberry donut", "raspberry filled", "rasp filled">>,
            <<>>,
            <<>>,
            <<>>),
        MenuItem("COF001", "Regular Brewed Coffee", "coffee",
            Dec(179), Dec(179),
            <<"coffee", "regular coffee", "brewed coffee", "black coffee">>,
            <<KV("small", Dec(0)), KV("medium", Dec(30)), KV("large", Dec(60))>>,
            <<"cream", "sugar", "milk">>,
            <<KV("with cream", "cream"), KV("creamer", "cream"),
              KV("sweet", "sugar")>>),
        MenuItem("COF002", "Pumpkin Spice Latte", "coffee",
            Dec(459), Dec(459),
            <<"pumpkin spice latte", "psl", "pumpkin latte", "ps latte">>,
            <<KV("small", Dec(0)), KV("medium", Dec(50)), KV("large", Dec(100))>>,
            <<"extra shot", "whip", "no whip", "almond milk", "oat milk">>,
            <<KV("whipped cream", "whip"), KV("no whipped cream", "no whip")>>)
      >>,
      <<KV("small", "small"), KV("s", "small"), KV("sm", "small"),
        KV("regular", "small"), KV("medium", "medium"), KV("m", "medium"),
        KV("med", "medium"), KV("large", "large"), KV("l", "large"),
        KV("lg", "large"), KV("big", "large")>>,
      <<KV("donuts", "regular"), KV("coffee", "medium")>>)

LARGE_MENU ==
    Menu("Large Menu",
      <<
        MenuItem("DON001", "Pumpkin Spice Iced Doughnut", "donuts",
            Dec(129), Dec(129),
            <<"pumpkin spice donut", "pumpkin donut", "ps donut", "pumpkin iced",
              "pumpkin spice", "pumpkin glazed", "ps iced">>,
            <<>>,
            <<>>,
            <<>>),
        MenuItem("DON002", "Pumpkin Spice Cake Doughnut", "donuts",
            Dec(129), Dec(129),
            <<"pumpkin cake donut", "pumpkin cake", "ps cake",
              "pumpkin spice cake", "cake donut pumpkin">>,
            <<>>,
            <<>>,
            <<>>),
        MenuItem("DON003", "Old Fashioned Doughnut", "donuts",
            Dec(129), Dec(129),
            <<"old fashioned", "old fashioned donut", "old fashioned doughnut",
              "old fashion", "plain cake donut">>,
            <<>>,
            <<>>,
            <<>>),
        MenuItem("DON004", "Chocolate Iced Doughnut", "donuts",
            Dec(109), Dec(109),
            <<"chocolate donut", "choc donut", "chocolate glazed",
              "chocolate iced", "choc iced", "chocolate", "choc">>,
            <<>>,
            <<"sprinkles">>,
            <<KV("with sprinkles", "sprinkles"), KV("sprinkled", "sprinkles"),
              KV("rainbow sprinkles", "sprinkles"),
              KV("colored sprinkles", "sprinkles")>>),
        MenuItem("DON005", "Raspberry Filled Doughnut", "donuts",
            Dec(109), Dec(109),
            <<"raspberry donut", "raspberry filled", "rasp filled",
              "raspberry jelly", "raspberry jam", "rasp", "raspberry">>,
            <<>>,
            <<>>,
            <<>>),
        MenuItem("DON006", "Blueberry Cake Doughnut", "donuts",
            Dec(109), Dec(109),
            <<"blueberry donut", "blueberry cake", "blueberry",
              "blueberry cake donut">>,
            <<>>,
            <<>>,
            <<>>),
        MenuItem("DON007", "Strawberry Iced Doughnut with Sprinkles", "donuts",
            Dec(109), Dec(109),
            <<"strawberry donut", "strawberry iced", "strawberry glazed",
              "strawberry", "strawberry with sprinkles", "strawberry sprinkled">>,
            <<>>,
            <<"sprinkles">>,
            <<KV("with sprinkles", "sprinkles"), KV("sprinkled", "sprinkles")>>),
        MenuItem("DON008", "Lemon Filled Doughnut", "donuts",
            Dec(109), Dec(109),
            <<"lemon donut", "lemon filled", "lemon jelly", "lemon jam", "lemon">>,
            <<>>,
            <<>>,
            <<>>),
        MenuItem("DON009", "Doughnut Holes", "donuts",
            Dec(399), Dec(399),
            <<"donut holes", "donut holes dozen", "holes", "munchkins",
              "donut munchkins">>,
            <<>>,
            <<>>,
            <<>>),
        MenuItem("COF001", "Pumpkin Spice Coffee", "coffee",
            Dec(259), Dec(259),
            <<"pumpkin spice coffee", "ps coffee", "pumpkin coffee",
              "pumpkin brew">>,
            <<KV("small", Dec(0)), KV("medium", Dec(30)), KV("large", Dec(60))>>,
            <<"cream", "sugar", "milk", "extra shot">>,
            <<KV("with cream", "cream"), KV("creamer", "cream"),
              KV("sweet", "sugar")>>),
        MenuItem("COF002", "Pumpkin Spice Latte", "coffee",
            Dec(459), Dec(459),
            <<"pumpkin spice latte", "psl", "pumpkin latte", "ps latte",
              "pumpkin spice latte">>,
            <<KV("small", Dec(0)), KV("medium", Dec(50)), KV("large", Dec(100))>>,
            <<"extra shot", "whip", "no whip", "almond milk", "oat milk">>,
            <<KV("whipped cream", "whip"), KV("no whipped cream", "no whip")>>),
        MenuItem("COF003", "Regular Brewed Coffee", "coffee",
            Dec(179), Dec(179),
            <<"coffee", "regular coffee", "brewed coffee", "black coffee",
              "regular", "house coffee", "drip coffee">>,
            <<KV("small", Dec(0)), KV("medium", Dec(30)), KV("large", Dec(60))>>,
            <<"cream", "sugar", "milk">>,
            <<KV("with cream", "cream"), KV("creamer", "cream"),
              KV("sweet", "sugar")>>),
        MenuItem("COF004", "Decaf Brewed Coffee", "coffee",
            Dec(179), Dec(179),
            <<"decaf", "decaf coffee", "decaffeinated", "decaf brewed">>,
            <<KV("small", Dec(0)), KV("medium", Dec(30)), KV("large", Dec(60))>>,
            <<"cream", "sugar", "milk">>,
            <<KV("with cream", "cream"), KV("creamer", "cream"),
              KV("sweet", "sugar")>>),
        MenuItem("COF005", "Latte", "coffee",
            Dec(349), Dec(349),
            <<"latte", "cafe latte", "coffee latte">>,
            <<KV("small", Dec(0)), KV("medium", Dec(40)), KV("large", Dec(80))>>,
            <<"extra shot", "decaf", "almond milk", "oat milk", "skim milk", "whole milk">>,
            <<KV("almond", "almond milk"), KV("oat", "oat milk"),
              KV("skim", "skim milk")>>),
        MenuItem("COF006", "Cappuccino", "coffee",
            Dec(349), Dec(349),
            <<"cappuccino", "capp", "cappucino">>,
            <<KV("small", Dec(0)), KV("medium", Dec(40)), KV("large", Dec(80))>>,
            <<"extra shot", "decaf", "almond milk", "oat milk", "skim milk">>,
            <<KV("almond", "almond milk"), KV("oat", "oat milk"),
              KV("skim", "skim milk")>>),
        MenuItem("COF007", "Caramel Macchiato", "coffee",
            Dec(349), Dec(349),
            <<"caramel macchiato", "caramel mac", "caramel mach", "macchiato">>,
            <<KV("small", Dec(0)), KV("medium", Dec(40)), KV("large", Dec(80))>>,
            <<"extra shot", "decaf", "almond milk", "oat milk", "extra caramel">>,
            <<KV("almond", "almond milk"), KV("oat", "oat milk")>>),
        MenuItem("COF008", "Mocha Latte", "coffee",
            Dec(349), Dec(349),
            <<"mocha", "mocha latte", "chocolate latte", "choc latte">>,
            <<KV("small", Dec(0)), KV("medium", Dec(40)), KV("large", Dec(80))>>,
            <<"extra shot", "decaf", "almond milk", "oat milk", "whip", "no whip">>,
            <<KV("almond", "almond milk"), KV("oat", "oat milk"),
              KV("whipped cream", "whip")>>),
        MenuItem("COF009", "Caramel Mocha Latte", "coffee",
            Dec(349), Dec(349),
            <<"caramel mocha", "caramel mocha latte", "caramel choc latte">>,
            <<KV("small", Dec(0)), KV("medium", Dec(40)), KV("large", Dec(80))>>,
            <<"extra shot", "decaf", "almond milk", "oat milk", "whip", "no whip">>,
            <<KV("almond", "almond milk"), KV("oat", "oat milk"),
              KV("whipped cream", "whip")>>)
      >>,
      <<KV("small", "small"), KV("s", "small"), KV("sm", "small"),
        KV("regular", "small"), KV("short", "small"),
        KV("medium", "medium"), KV("m", "medium"), KV("med", "medium"),
        KV("grande", "medium"), KV("large", "large"), KV("l", "large"),
        KV("lg", "large"), KV("big", "large"), KV("venti", "large"),
        KV("extra large", "large"), KV("xl", "large"),
        KV("x-large", "large")>>,
      <<KV("donuts", "regular"), KV("coffee", "medium")>>)

(***************************************************************************)
(* CartNormalizer.                                                         *)
(***************************************************************************)
RECURSIVE SetAll(_, _)
SetAll(d, kvs) ==
    IF kvs = <<>> THEN d
    ELSE SetAll(DictSet(d, Head(kvs).key, Head(kvs).value), Tail(kvs))

\* the keys an item registers in alias_map: its name, then its aliases
AliasEntries(item) ==
    <<KV(LowerStr(Spell[item.name]), item)>>
    \o [k \in 1..Len(item.aliases) |-> KV(LowerStr(Spell[item.aliases[k]]), item)]

ModifierEntries(item) ==
    [k \in 1..Len(item.modifier_synonyms) |->
        KV(LowerStr(Spell[item.modifier_synonyms[k].key]), item.modifier_synonyms[k].value)]

RECURSIVE SetNew(_, _)
\* d.setdefault(key, value) for the entries of kvs, in order
SetNew(d, kvs) ==
    IF kvs = <<>> THEN d
    ELSE SetNew(IF DictHas(d, Head(kvs).key) THEN d
                ELSE DictSet(d, Head(kvs).key, Head(kvs).value), Tail(kvs))

RECURSIVE BuildMap_first_wins(_, _)
\* an index in which the first registration of a key is kept
BuildMap_first_wins(entries, d) ==
    IF entries = <<>> THEN d
    ELSE BuildMap_first_wins(Tail(entries), SetNew(d, Head(entries)))

RECURSIVE BuildMap(_, _)
\* the loop over menu.items that fills one index, entries[k] being the
\* assignments made for the k-th item
BuildMap(entries, d) ==
    IF entries = <<>> THEN d
    ELSE BuildMap(Tail(entries), SetAll(d, Head(entries)))

_build_indexes(menu) ==
    [alias_map    |-> BuildMap([k \in DOMAIN menu.items |-> AliasEntries(menu.items[k])], <<>>),
     size_map     |-> menu.size_synonyms,
     modifier_map |-> BuildMap([k \in DOMAIN menu.items |-> ModifierEntries(menu.items[k])], <<>>)]

\* CartNormalizer(menu)
CartNormalizer(menu) ==
    LET ix == _build_indexes(menu)
    IN  [menu |-> menu, alias_map |-> ix.alias_map, size_map |-> ix.size_map,
         modifier_map |-> ix.modifier_map]

Mention(start, end, alias, item) ==
    [start |-> start, end |-> end, alias |-> alias, item |-> item]

\* the matches of one alias, in text order
MentionsOf(text, entry) ==
    LET starts == FindIter(text, entry.key, 0)
    IN  [k \in 1..Len(starts) |->
            Mention(starts[k], starts[k] + Len(entry.key), entry.key, entry.value)]

RECURSIVE AllMentions(_, _)
\* found_mentions before the sort: alias after alias in alias_map order
AllMentions(text, alias_map) ==
    IF alias_map = <<>> THEN <<>>
    ELSE MentionsOf(text, Head(alias_map)) \o AllMentions(text, Tail(alias_map))

StartLess(a, b) == a.start < b.start

LessBy(by, x, y) ==
    CASE by = "char"  -> CharLess(x, y)
      [] by = "str"   -> StrLess(x, y)
      [] by = "key"   -> KeyLess(x, y)
      [] by = "start" -> StartLess(x, y)

\* found_mentions after found_mentions.sort(key=lambda x: x[0])
FoundMentions(text, alias_map) == SortedBy("start", AllMentions(text, alias_map))

Overlap(m, prev) == ~ (m.end <= prev.start \/ m.start >= prev.end)

\* list.remove(x): the list without its first element equal to x
RemoveFirst(seq, x) ==
    LET k == Min({i \in DOMAIN seq : seq[i] = x})
    IN  SubSeq(seq, 1, k - 1) \o SubSeq(seq, k + 1, Len(seq))

RECURSIVE ScanAccepted_keeps_both(_, _, _)
\* the inner loop without the remove() of the shorter accepted mention
ScanAccepted_keeps_both(m, st, idx) ==
    IF idx >= Len(st.filtered) THEN st
    ELSE LET prev == st.filtered[idx + 1]
         IN  IF Overlap(m, prev)
             THEN IF Len(m.alias) > Len(prev.alias)
                  THEN ScanAccepted_keeps_both(m, st, idx + 1)
                  ELSE [st EXCEPT !.overlaps = TRUE]
             ELSE ScanAccepted_keeps_both(m, st, idx + 1)

RECURSIVE ScanAccepted_shorter_wins(_, _, _)
\* the inner loop with the comparison of the alias lengths turned round
ScanAccepted_shorter_wins(m, st, idx) ==
    IF idx >= Len(st.filtered) THEN st
    ELSE LET prev == st.filtered[idx + 1]
         IN  IF Overlap(m, prev)
             THEN IF Len(m.alias) < Len(prev.alias)
                  THEN ScanAccepted_shorter_wins(m,
                           [st EXCEPT !.filtered = RemoveFirst(@, prev),
                                      !.removed = @ + 1], idx + 1)
                  ELSE [st EXCEPT !.overlaps = TRUE]
             ELSE ScanAccepted_shorter_wins(m, st, idx + 1)

RECURSIVE ScanAccepted_ties_replace(_, _, _)
\* the inner loop with an alias of equal length replacing the accepted one
ScanAccepted_ties_replace(m, st, idx) ==
    IF idx >= Len(st.filtered) THEN st
    ELSE LET prev == st.filtered[idx + 1]
         IN  IF Overlap(m, prev)
             THEN IF Len(m.alias) >= Len(prev.alias)
                  THEN ScanAccepted_ties_replace(m,
                           [st EXCEPT !.filtered = RemoveFirst(@, prev),
                                      !.removed = @ + 1], idx + 1)
                  ELSE [st EXCEPT !.overlaps = TRUE]
             ELSE ScanAccepted_ties_replace(m, st, idx + 1)

RECURSIVE ScanAccepted_ignores_spans(_, _, _)
\* the inner loop without the test that the two spans intersect
ScanAccepted_ignores_spans(m, st, idx) ==
    IF idx >= Len(st.filtered) THEN st
    ELSE LET prev == st.filtered[idx + 1]
         IN  IF Len(m.alias) > Len(prev.alias)
             THEN ScanAccepted_ignores_spans(m, [st EXCEPT !.filtered = RemoveFirst(@, prev),
                                                           !.removed = @ + 1], idx + 1)
             ELSE [st EXCEPT !.overlaps = TRUE]

RECURSIVE ScanAccepted(_, _, _)
\* the inner loop "for prev in filtered_mentions" for one candidate.  idx is
\* the list iterator's index: a remove() inside the loop shortens the list
\* while idx goes on counting.  removed counts the remove() calls.
ScanAccepted(m, st, idx) ==
    IF idx >= Len(st.filtered) THEN st
    ELSE LET prev == st.filtered[idx + 1]
         IN  IF Overlap(m, prev)
             THEN IF Len(m.alias) > Len(prev.alias)
                  THEN ScanAccepted(m, [st EXCEPT !.filtered = RemoveFirst(@, prev),
                                                  !.removed = @ + 1], idx + 1)
                  ELSE [st EXCEPT !.overlaps = TRUE]
             ELSE ScanAccepted(m, st, idx + 1)

\* one pass of the outer loop: filtered_mentions after candidate m
FilterOne(m, filtered) ==
    LET st == ScanAccepted(m, [filtered |-> filtered, overlaps |-> FALSE, removed |-> 0], 0)
    IN  [st EXCEPT !.filtered = IF st.overlaps THEN @ ELSE Append(@, m)]

(***************************************************************************)
(* Attribute extraction.  A call that can raise returns [raised, error,    *)
(* value]: raised tells whether it ended in the exception error.           *)
(***************************************************************************)
\* characters of context kept before and after a mention
ContextBefore == 50
ContextAfter == 100
\* words before the alias that _extract_quantity looks at
QuantityWords == 5

Ok(value) == [raised |-> FALSE, error |-> "", value |-> value]
Raise(error, value) == [raised |-> TRUE, error |-> error, value |-> value]

number_words ==
    <<KV("one", 1), KV("two", 2), KV("three", 3), KV("four", 4), KV("five", 5),
      KV("six", 6), KV("seven", 7), KV("eight", 8), KV("nine", 9), KV("ten", 10),
      KV("a", 1), KV("an", 1)>>

\* word in number_words, word a sequence of characters
IsNumberWord(word) == \E k \in DOMAIN number_words : Spell[number_words[k].key] = word
NumberWordValue(word) ==
    number_words[CHOOSE k \in DOMAIN number_words : Spell[number_words[k].key] = word].value

\* str.isdigit()
IsDigitStr(word) == word # <<>> /\ \A k \in DOMAIN word : IsDigitChar(word[k])

DigitValue(c) == (CHOOSE k \in DOMAIN DigitSeq : DigitSeq[k] = c) - 1

RECURSIVE DecimalValue(_)
DecimalValue(word) ==
    IF word = <<>> THEN 0
    ELSE 10 * DecimalValue(SubSeq(word, 1, Len(word) - 1)) + DigitValue(word[Len(word)])

\* int(word) for a word that isdigit() accepts: a digit that is no decimal
\* digit makes int() raise ValueError
IntOf(word) ==
    IF \A k \in DOMAIN word : word[k] \in Digits
    THEN Ok(DecimalValue(word))
    ELSE Raise("ValueError", 0)

RECURSIVE ScanQuantity(_, _, _)
\* for word in reversed(words[-5:]), from words[k] down to words[low]
ScanQuantity(words, k, low) ==
    IF k < low THEN Ok(1)
    ELSE IF IsNumberWord(words[k]) THEN Ok(NumberWordValue(words[k]))
    ELSE IF IsDigitStr(words[k]) THEN IntOf(words[k])
    ELSE ScanQuantity(words, k - 1, low)

_extract_quantity(context, alias) ==
    LET alias_pos == Find(context, alias)
        words     == Split(Slice(context, 0, alias_pos))
    IN  IF alias_pos = -1 THEN Ok(1)
        ELSE ScanQuantity(words, Len(words), Max2(1, Len(words) - QuantityWords + 1))

\* returns the synonym met first in the text instead of first in the table
_extract_size_by_position(nz, context, item) ==
    IF item.size_variations = <<>> THEN None
    ELSE LET hits == {k \in DOMAIN nz.size_map :
                          SearchWord(context, Spell[nz.size_map[k].key])}
             at(k) == FindIter(context, Spell[nz.size_map[k].key], 0)[1]
         IN  IF hits # {}
             THEN nz.size_map[CHOOSE k \in hits : \A h \in hits :
                                  at(k) < at(h) \/ (at(k) = at(h) /\ k <= h)].value
             ELSE IF DictHas(nz.menu.default_sizes, item.category)
                  THEN DictGet(nz.menu.default_sizes, item.category)
                  ELSE "medium"

_extract_size(nz, context, item) ==
    IF item.size_variations = <<>> THEN None
    ELSE LET hits == {k \in DOMAIN nz.size_map :
                          SearchWord(context, Spell[nz.size_map[k].key])}
         IN  IF hits # {} THEN nz.size_map[Min(hits)].value
             ELSE IF DictHas(nz.menu.default_sizes, item.category)
                  THEN DictGet(nz.menu.default_sizes, item.category)
                  ELSE "medium"

RECURSIVE ScanSynonyms(_, _, _)
\* for synonym, canonical in self.modifier_map.items()
ScanSynonyms(modifier_map, context, modifiers) ==
    IF modifier_map = <<>> THEN modifiers
    ELSE LET e == Head(modifier_map)
         IN  ScanSynonyms(Tail(modifier_map), context,
                 IF Contains(context, e.key) /\ e.value \notin ToSet(modifiers)
                 THEN Append(modifiers, e.value) ELSE modifiers)

RECURSIVE ScanExplicit(_, _, _)
\* for modifier in item.modifiers
ScanExplicit(explicit, context, modifiers) ==
    IF explicit = <<>> THEN modifiers
    ELSE LET modifier == Head(explicit)
         IN  ScanExplicit(Tail(explicit), context,
                 IF Contains(context, LowerStr(Spell[modifier]))
                    /\ modifier \notin ToSet(modifiers)
                 THEN Append(modifiers, modifier) ELSE modifiers)

_extract_modifiers(nz, context, item) ==
    ScanExplicit(item.modifiers, context, ScanSynonyms(nz.modifier_map, context, <<>>))

_calculate_price_without_size(item, size, modifiers) == item.base_price

_calculate_price(item, size, modifiers) ==
    IF size # None /\ DictHas(item.size_variations, size)
    THEN FlAdd(item.base_price, DictGet(item.size_variations, size))
    ELSE item.base_price

\* context = text[context_start:context_end]
ContextOf(text, m) ==
    Slice(text, Max2(0, m.start - ContextBefore), Min2(Len(text), m.end + ContextAfter))

\* the body of the loop over filtered_mentions: the CartItem of one mention
ItemOfMention(nz, text, m) ==
    LET context   == ContextOf(text, m)
        quantity  == _extract_quantity(context, m.alias)
        size      == _extract_size(nz, context, m.item)
        modifiers == _extract_modifiers(nz, context, m.item)
        price     == _calculate_price(m.item, size, modifiers)
    IN  IF quantity.raised THEN Raise(quantity.error, <<>>)
        ELSE Ok(<<CartItem(m.item.sku, m.item.name, quantity.value, size, modifiers, price)>>)

RECURSIVE ItemsOfMentions(_, _, _, _)
\* the loop over filtered_mentions: the list items, or the first exception
ItemsOfMentions(nz, text, mentions, items) ==
    IF mentions = <<>> THEN Ok(items)
    ELSE LET r == ItemOfMention(nz, text, Head(mentions))
         IN  IF r.raised THEN r
             ELSE ItemsOfMentions(nz, text, Tail(mentions), items \o r.value)

RECURSIVE AddAll(_, _)
\* for item_info in items_found: cart.add_item(item_info)
AddAll(c, items) ==
    IF items = <<>> THEN c ELSE AddAll(add_item(c, Head(items)), Tail(items))

RECURSIVE FilterAll(_, _)
\* the overlap loop from its first pass to its last; each pass works on the
\* list the pass before it left
FilterAll(mentions, filtered) ==
    IF mentions = <<>> THEN filtered
    ELSE CHOOSE out \in { FilterAll(Tail(mentions), f) :
                              f \in {FilterOne(Head(mentions), filtered).filtered} } : TRUE

\* the add_item loop, merge_duplicates and the return of parse_order, r
\* being what _find_all_items ended in
CartOfItems(r) ==
    IF r.raised THEN Raise(r.error, EmptyCart)
    ELSE Ok(merge_duplicates(AddAll(EmptyCart, r.value)))

\* _find_all_items and the rest of parse_order for the normalized text;
\* every stage works on the value the stage before it returned
ParseNormalized(nz, found, normalized) ==
    CHOOSE out \in { CartOfItems(r) :
                         r \in { ItemsOfMentions(nz, normalized, filtered, <<>>) :
                                     filtered \in {FilterAll(found, <<>>)} } } : TRUE

\* normalizer.parse_order(raw) as one call: the cart it returns, or the
\* exception it ends in
parse_order(nz, raw) ==
    CHOOSE out \in { ParseNormalized(nz, found, normalized) :
                         normalized \in {normalize_text(_handle_corrections(raw))},
                         found \in {FoundMentions(normalize_text(_handle_corrections(raw)),
                                                  nz.alias_map)} } : TRUE

(***************************************************************************)
(* State.                                                                  *)
(***************************************************************************)
VARIABLES
    cart,       \* a Cart object the caller holds: [items, total]
    lastOp,     \* the Cart or CartEvaluator method that returned last
    verdict,    \* what the last CartEvaluator call was given and returned
    nOps,       \* number of calls made so far
    normalizer, \* the CartNormalizer: menu, alias_map, size_map, modifier_map
    scenario,   \* what the caller is doing: kind, and the texts it parses
    pc,         \* where the running parse_order call is
    text,       \* the normalized text of the running call
    found_mentions,     \* found_mentions of _find_all_items, sorted
    filtered_mentions,  \* filtered_mentions of _find_all_items
    i,          \* number of candidates the overlap loop has handled
    removals,   \* number of accepted mentions the loop has removed
    pcart,      \* the Cart of the running call
    results,    \* what the parse_order calls returned or raised, in order
    final,      \* cart.to_dict() of the "Final cart" log line of the last call
    report,     \* report.results of run_evaluation
    run,        \* how far run_evaluation is: "none" when it is not called
    session,    \* the handlers at work on one UltravoxVoiceSession, whose
                \* cart is the variable cart: the cart they started from,
                \* the two calls as made, and how far each has got
    calls       \* parse_order calls of several threads on one CartNormalizer:
                \* the Cart objects made so far and each call's locals

cartVars == <<cart, lastOp, verdict, nOps>>
parseVars == <<normalizer, scenario, pc, text, found_mentions, filtered_mentions,
               i, removals, pcart, results, final>>
harnessVars == <<report, run>>
sessionVars == <<session>>
sharedVars == <<calls>>
vars == <<cartVars, parseVars, harnessVars, sessionVars, sharedVars>>

\* no parse_order call is running
ParseIdle ==
    /\ pc = "idle"
    /\ text = <<>>
    /\ found_mentions = <<>>
    /\ filtered_mentions = <<>>
    /\ i = 0
    /\ removals = 0
    /\ pcart = EmptyCart
    /\ results = <<>>
    /\ final = to_dict(EmptyCart)

NoVerdict == [op |-> "none"]

\* run_evaluation is not called
NoHarness == report = <<>> /\ run = "none"

\* what a handler keeps between its steps: the handler and its arguments,
\* the items parse_order gave it, its place in their loop, the sum it
\* computed, and where it is ("done" when it has returned)
Local(handler, new, index, quantity, at) ==
    [handler |-> handler, new |-> new, k |-> 1, index |-> index,
     quantity |-> quantity, sum |-> 0, pc |-> at]

\* no thread is in parse_order
NoCalls == calls = [heap |-> <<>>, call |-> <<>>]

\* no handler is at work
NoSession ==
    session = [cart0    |-> EmptyCart,
               wsCall   |-> Local("none", <<>>, 0, 0, "done"),
               httpCall |-> Local("none", <<>>, 0, 0, "done"),
               ws       |-> Local("none", <<>>, 0, 0, "done"),
               http     |-> Local("none", <<>>, 0, 0, "done")]

(***************************************************************************)
(* The cart specification: a caller that builds CartItems and calls the    *)
(* methods of one Cart and of CartEvaluator in any order.                  *)
(***************************************************************************)
Coffee(quantity, size, modifiers, price) ==
    CartItem("COF001", "Regular Brewed Coffee", quantity, size, modifiers, price)

\* the CartItems the caller hands to the cart: lines that differ in quantity
\* only, in the order of their modifiers, in a repeated modifier or in price
\* only, and lines of an item without sizes
ItemPool ==
    { Coffee(q, "medium", <<"cream", "sugar">>, Dec(209)) : q \in 1..MaxQuantity }
    \cup { Coffee(1, "medium", <<"sugar", "cream">>, Dec(209)),
           Coffee(1, "medium", <<"cream">>, Dec(209)),
           Coffee(2, "medium", <<"cream", "cream">>, Dec(209)),
           Coffee(1, "medium", <<"cream">>, Dec(179)) }
    \cup { CartItem("DON002", "Chocolate Iced Doughnut", q, None, <<>>, Dec(109)) :
              q \in 1..MaxQuantity }

InitCart ==
    /\ cart = EmptyCart
    /\ lastOp = "Cart"
    /\ verdict = NoVerdict
    /\ nOps = 0
    /\ normalizer = CartNormalizer(SMALL_MENU)
    /\ scenario = [kind |-> "cart", inputs |-> <<>>]
    /\ ParseIdle
    /\ NoHarness
    /\ NoSession
    /\ NoCalls

\* the caller makes one more call
Call == nOps < MaxOps /\ nOps' = nOps + 1

AddItem(item) ==
    /\ Call
    /\ Len(cart.items) < MaxItems
    /\ cart' = add_item(cart, item)
    /\ lastOp' = "add_item"
    /\ verdict' = NoVerdict
    /\ UNCHANGED <<parseVars, harnessVars, sessionVars, sharedVars>>

RemoveItem(index) ==
    /\ Call
    /\ cart' = remove_item(cart, index)
    /\ lastOp' = "remove_item"
    /\ verdict' = NoVerdict
    /\ UNCHANGED <<parseVars, harnessVars, sessionVars, sharedVars>>

UpdateItem(index, item) ==
    /\ Call
    /\ cart' = update_item(cart, index, item)
    /\ lastOp' = "update_item"
    /\ verdict' = NoVerdict
    /\ UNCHANGED <<parseVars, harnessVars, sessionVars, sharedVars>>

MergeDuplicates ==
    /\ Call
    /\ cart' = merge_duplicates(cart)
    /\ lastOp' = "merge_duplicates"
    /\ verdict' = NoVerdict
    /\ UNCHANGED <<parseVars, harnessVars, sessionVars, sharedVars>>

Reversed(seq) == [k \in 1..Len(seq) |-> seq[Len(seq) + 1 - k]]

\* the carts the caller compares its cart with
ExpectedCarts == { [cart EXCEPT !.items = Reversed(cart.items)] }

ExactMatch(expected) ==
    /\ Call
    /\ verdict' = [op |-> "exact_match", actual |-> cart, expected |-> expected,
                   result |-> exact_match(cart, expected)]
    /\ lastOp' = "exact_match"
    /\ UNCHANGED <<cart, parseVars, harnessVars, sessionVars, sharedVars>>

NextCart ==
    \/ \E item \in ItemPool : AddItem(item)
    \/ \E index \in -1..MaxItems : RemoveItem(index)
    \/ \E index \in -1..MaxItems, item \in ItemPool : UpdateItem(index, item)
    \/ MergeDuplicates
    \/ \E expected \in ExpectedCarts : ExactMatch(expected)

SpecCart == InitCart /\ [][NextCart]_vars

(***************************************************************************)
(* The evaluator specification: CartEvaluator called once on an actual and *)
(* an expected cart.                                                       *)
(***************************************************************************)
\* largest number of lines of the carts handed to CartEvaluator
MaxEvalItems == 2

\* the lines of those carts: lines that differ in the order of their
\* modifiers only, in quantity only or in their modifiers, a line of an item
\* without sizes, and a line of quantity 0
EvalPool ==
    { Coffee(1, "medium", <<"cream", "sugar">>, Dec(209)),
      Coffee(1, "medium", <<"sugar", "cream">>, Dec(209)),
      Coffee(2, "medium", <<"cream", "sugar">>, Dec(209)),
      Coffee(2, "medium", <<"milk">>, Dec(209)),
      CartItem("DON002", "Chocolate Iced Doughnut", 1, None, <<>>, Dec(109)),
      CartItem("DON003", "Raspberry Filled Doughnut", 0, None, <<>>, Dec(109)) }

\* Cart(items=..., total=...) as the harness builds an expected cart
CartOf(items) == [items |-> items, total |-> SumTotal(items, 0)]

EvalCarts == { CartOf(items) : items \in UNION {[1..n -> EvalPool] : n \in 0..MaxEvalItems} }

InitEval ==
    /\ cart \in EvalCarts
    /\ lastOp = "Cart"
    /\ verdict = NoVerdict
    /\ nOps = 0
    /\ normalizer = CartNormalizer(SMALL_MENU)
    /\ scenario = [kind |-> "eval", inputs |-> <<>>]
    /\ ParseIdle
    /\ NoHarness
    /\ NoSession
    /\ NoCalls

\* the single CartEvaluator call
EvalCall == nOps = 0 /\ nOps' = 1

EvalExactMatch(expected) ==
    /\ EvalCall
    /\ verdict' = [op |-> "exact_match", actual |-> cart, expected |-> expected,
                   result |-> exact_match(cart, expected)]
    /\ lastOp' = "exact_match"
    /\ UNCHANGED <<cart, parseVars, harnessVars, sessionVars, sharedVars>>

CalculateF1(expected) ==
    /\ EvalCall
    /\ verdict' = [op |-> "calculate_f1", actual |-> cart, expected |-> expected,
                   result |-> [raised |-> FALSE, value |-> calculate_f1(cart, expected)]]
    /\ lastOp' = "calculate_f1"
    /\ UNCHANGED <<cart, parseVars, harnessVars, sessionVars, sharedVars>>

CalculateItemAccuracy(expected) ==
    /\ EvalCall
    /\ verdict' = [op |-> "calculate_item_accuracy", actual |-> cart, expected |-> expected,
                   result |-> [raised |-> FALSE,
                               value |-> calculate_item_accuracy(cart, expected)]]
    /\ lastOp' = "calculate_item_accuracy"
    /\ UNCHANGED <<cart, parseVars, harnessVars, sessionVars, sharedVars>>

NextEval ==
    \/ \E expected \in EvalCarts : EvalExactMatch(expected)
    \/ \E expected \in EvalCarts : CalculateF1(expected)
    \/ \E expected \in EvalCarts : CalculateItemAccuracy(expected)

SpecEval == InitEval /\ [][NextEval]_vars

(***************************************************************************)
(* The parse specification: a caller that builds a CartNormalizer for a    *)
(* menu and calls parse_order on one text after the other.                 *)
(***************************************************************************)
\* largest number of words of the texts made of LatteWords
MaxWords == 4

\* a text is given by its words; the str is the words joined by one space
RawText(words) == JoinSpace([k \in 1..Len(words) |-> Spell[words[k]]])

\* the items of LARGE_MENU whose aliases are made of LatteWords
LatteSkus == {"DON001", "DON002", "COF002", "COF005"}
LatteWords == {"cake", "donut", "pumpkin", "spice", "latte"}

IsLatteItem(item) == item.sku \in LatteSkus

LatteMenu ==
    Menu(LARGE_MENU.name, SelectSeq(LARGE_MENU.items, IsLatteItem),
         LARGE_MENU.size_synonyms, LARGE_MENU.default_sizes)

\* the same items registered in the opposite order
LatteMenuReversed == [LatteMenu EXCEPT !.items = Reversed(@)]

WordSeqs(words, n) == UNION {[1..k -> words] : k \in 1..n}

LatteScenarios ==
    { [kind |-> "latte", menu |-> m, inputs |-> <<t>>] :
          m \in {LatteMenu, LatteMenuReversed}, t \in WordSeqs(LatteWords, MaxWords) }

\* texts for the small menu: the two scenarios of the specification, texts
\* without any alias, texts with punctuation, capitals, correction phrases
\* and digits
SmallTexts ==
    { <<"two", "medium", "regular", "brewed", "coffees", "with", "cream">>,
      <<"two", "medium", "regular", "brewed", "coffee", "with", "cream">>,
      <<"a", "chocolate", "donut", "with", "sprinkles", "and", "a", "raspberry", "donut">>,
      <<>>,
      <<"!!!">>,
      <<"hello">>,
      <<"Coffee!">>,
      <<"actually", "a", "large", "coffee">>,
      <<"make", "that", "two", "psl">>,
      <<"0", "coffee">>,
      <<"12", "coffee">>,
      <<"sup2", "coffee">>,
      <<"sup2", "hello">>,
      <<"two", "coffee", "and", "three", "coffee">>,
      <<"a", "large", "coffee", "and", "a", "donut">>,
      <<"a", "small", "coffee", "five", "black", "coffee">>,
      <<"two", "chocolate", "donut", "three", "choc", "donut">> }

SmallScenarios ==
    { [kind |-> "small", menu |-> SMALL_MENU, inputs |-> <<t>>] : t \in SmallTexts }

\* one mention with the words said for it
CoffeeUnits == { <<"coffee">>, <<"a", "coffee">>, <<"three", "coffee">> }
LatteUnits == { <<"psl">>, <<"two", "psl">>, <<"a", "large", "psl">> }
Fillers == { <<>>, <<"and">>, <<"please">> }

\* two texts that differ in the order of their two mentions only
SwapScenarios ==
    { [kind |-> "swap", menu |-> SMALL_MENU,
       inputs |-> << pre \o u1 \o mid \o u2 \o post, pre \o u2 \o mid \o u1 \o post >>] :
          u1 \in CoffeeUnits, u2 \in LatteUnits,
          pre \in {<<>>}, mid \in Fillers, post \in {<<>>, <<"please">>} }

\* menus a caller builds from the small menu: the coffee category with
\* another default size, and with no default size
SizeMenus ==
    { [SMALL_MENU EXCEPT !.default_sizes = <<KV("donuts", "regular"), KV("coffee", "large")>>],
      [SMALL_MENU EXCEPT !.default_sizes = <<KV("donuts", "regular")>>] }

SizeTexts ==
    { <<"a", "coffee">>,
      <<"a", "large", "coffee">>,
      <<"medium", "regular", "coffee">>,
      <<"a", "donut", "and", "a", "coffee">> }

SizeScenarios ==
    { [kind |-> "size", menu |-> m, inputs |-> <<t>>] : m \in SizeMenus, t \in SizeTexts }

\* texts for the large menu: an alias inside a longer alias that a still
\* longer alias, starting later, intersects
LargeTexts ==
    { <<"choc", "donut", "holes">>,
      <<"a", "lemon", "donut", "munchkins">> }

LargeScenarios ==
    { [kind |-> "large", menu |-> LARGE_MENU, inputs |-> <<t>>] : t \in LargeTexts }

ParseScenarios ==
    LatteScenarios \cup SmallScenarios \cup SwapScenarios \cup SizeScenarios \cup LargeScenarios

InitParse ==
    /\ cart = EmptyCart
    /\ lastOp = "Cart"
    /\ verdict = NoVerdict
    /\ nOps = 0
    /\ \E sc \in ParseScenarios :
           /\ normalizer = CartNormalizer(sc.menu)
           /\ scenario = [kind |-> sc.kind, inputs |-> sc.inputs]
    /\ ParseIdle
    /\ NoHarness
    /\ NoSession
    /\ NoCalls

\* parse_order up to the sort of found_mentions
ParseBegin ==
    /\ pc = "idle"
    /\ Len(results) < Len(scenario.inputs)
    /\ LET raw        == RawText(scenario.inputs[Len(results) + 1])
           normalized == normalize_text(_handle_corrections(raw))
       IN  /\ text' = normalized
           /\ found_mentions' = FoundMentions(normalized, normalizer.alias_map)
    /\ filtered_mentions' = <<>>
    /\ i' = 0
    /\ removals' = 0
    /\ pcart' = EmptyCart
    /\ pc' = "filter"
    /\ UNCHANGED <<cartVars, harnessVars, sessionVars, sharedVars, final, normalizer, scenario, results>>

\* one pass of "for i, mention in enumerate(found_mentions)"
FilterMention ==
    /\ pc = "filter"
    /\ i < Len(found_mentions)
    /\ LET st == FilterOne(found_mentions[i + 1], filtered_mentions)
       IN  /\ filtered_mentions' = st.filtered
           /\ removals' = removals + st.removed
    /\ i' = i + 1
    /\ UNCHANGED <<cartVars, harnessVars, sessionVars, sharedVars, final, normalizer, scenario, pc, text, found_mentions, pcart, results>>

\* the rest of _find_all_items and the add_item loop of parse_order; an
\* exception ends the call
BuildCart ==
    /\ pc = "filter"
    /\ i = Len(found_mentions)
    /\ LET r == ItemsOfMentions(normalizer, text, filtered_mentions, <<>>)
       IN  IF r.raised
           THEN /\ results' = Append(results, Raise(r.error, EmptyCart))
                /\ pc' = "idle"
                /\ pcart' = EmptyCart
           ELSE /\ pcart' = AddAll(EmptyCart, r.value)
                /\ pc' = "merge"
                /\ UNCHANGED results
    /\ UNCHANGED <<cartVars, harnessVars, sessionVars, sharedVars, final, normalizer, scenario, text, found_mentions,
                   filtered_mentions, i, removals>>

\* cart.merge_duplicates() and return cart
MergeAndReturn ==
    /\ pc = "merge"
    /\ results' = Append(results, Ok(merge_duplicates(pcart)))
    /\ final' = to_dict(merge_duplicates(pcart))
    /\ pc' = "idle"
    /\ UNCHANGED <<cartVars, harnessVars, sessionVars, sharedVars, normalizer, scenario, text, found_mentions,
                   filtered_mentions, i, removals, pcart>>

NextParse ==
    \/ ParseBegin
    \/ FilterMention
    \/ BuildCart
    \/ MergeAndReturn

SpecParse == InitParse /\ [][NextParse]_vars

(***************************************************************************)
(* The harness specification: run_evaluation (src/evaluate.py) over a list *)
(* of test scenarios of the small menu.  A TestScenario gives a text and   *)
(* the expected cart.                                                      *)
(***************************************************************************)
\* largest number of scenarios of a run
MaxScenarios == 2

TestScenario(input_text, expected_cart) ==
    [input_text |-> input_text, expected_cart |-> expected_cart]

\* the scenarios a run is made of: texts parse_order returns a cart for,
\* with and without items, and a text it raises ValueError for
ScenarioPool ==
    { TestScenario(<<"hello">>, CartOf(<<>>)),
      TestScenario(<<"a", "large", "coffee">>,
                   CartOf(<<Coffee(1, "large", <<>>, Dec(239))>>)),
      TestScenario(<<"two", "psl">>,
                   CartOf(<<CartItem("COF002", "Pumpkin Spice Latte", 2, "medium", <<>>,
                                     Dec(509))>>)),
      TestScenario(<<"sup2", "coffee">>,
                   CartOf(<<Coffee(2, "medium", <<>>, Dec(209))>>)) }

Suites == UNION {[1..n -> ScenarioPool] : n \in 1..MaxScenarios}

InitHarness ==
    /\ cart = EmptyCart
    /\ lastOp = "Cart"
    /\ verdict = NoVerdict
    /\ nOps = 0
    /\ normalizer = CartNormalizer(SMALL_MENU)
    /\ \E suite \in Suites :
           scenario = [kind |-> "harness",
                       inputs |-> [k \in DOMAIN suite |-> suite[k].input_text],
                       expected |-> [k \in DOMAIN suite |-> suite[k].expected_cart]]
    /\ ParseIdle
    /\ report = <<>>
    /\ run = "loop"
    /\ NoSession
    /\ NoCalls

\* "for scenario in scenarios": the next scenario, up to the sort of
\* found_mentions in parse_order
HarnessParse ==
    /\ run = "loop"
    /\ Len(report) = Len(results)
    /\ ParseBegin

\* what follows parse_order for one scenario: the except clause when it
\* raised, which evaluates the name Cart that evaluate.py does not import
\* and so raises NameError out of run_evaluation; the three metrics and
\* report.add_result when it returned
Score ==
    /\ run = "loop"
    /\ pc = "idle"
    /\ Len(results) = Len(report) + 1
    /\ LET r        == results[Len(results)]
           expected == scenario.expected[Len(results)]
           em       == exact_match(r.value, expected)
       IN  IF r.raised
           THEN run' = "NameError" /\ UNCHANGED report
           ELSE IF em.raised
           THEN run' = "TypeError" /\ UNCHANGED report
           ELSE /\ report' = Append(report,
                       [expected |-> to_dict(expected),
                        actual   |-> to_dict(r.value),
                        metrics |-> [exact_match   |-> em.value,
                                     f1            |-> calculate_f1(r.value, expected),
                                     item_accuracy |->
                                         calculate_item_accuracy(r.value, expected)]])
                /\ UNCHANGED run
    /\ UNCHANGED <<cartVars, parseVars, sessionVars, sharedVars>>

\* the loop is over: the summary, the report file, "return report"
ReturnReport ==
    /\ run = "loop"
    /\ Len(report) = Len(scenario.inputs)
    /\ run' = "returned"
    /\ UNCHANGED <<cartVars, parseVars, report, sessionVars, sharedVars>>

NextHarness ==
    \/ HarnessParse
    \/ FilterMention
    \/ BuildCart
    \/ MergeAndReturn
    \/ Score
    \/ ReturnReport

SpecHarness == InitHarness /\ [][NextHarness]_vars

(***************************************************************************)
(* The session specification: one UltravoxVoiceSession (src/web_app.py)    *)
(* whose cart two handlers work on at the same time, the transcript        *)
(* handler of the websocket on the session's event-loop thread and an HTTP *)
(* handler on a request thread.  The code takes no lock.  A handler runs   *)
(* in steps; the other thread can run between two steps, which are cut     *)
(* where the handler calls Python code (logger.info after each item, the   *)
(* generator of sum).                                                      *)
(***************************************************************************)
\* largest quantity /api/update_item_quantity is given
MaxNewQuantity == 2

\* the first item of the cart that the handler takes for new_item: equal
\* name, size and set of modifiers (0 when there is none)
ExistingItem(items, new_item) ==
    LET same == {k \in DOMAIN items :
                    /\ items[k].name = new_item.name
                    /\ items[k].size = new_item.size
                    /\ ToSet(items[k].modifiers) = ToSet(new_item.modifiers)}
    IN  IF same = {} THEN 0 ELSE Min(same)

\* one pass of "for new_item in new_items_cart.items"
MergeNewItem(c, new_item) ==
    LET e == ExistingItem(c.items, new_item)
    IN  IF e # 0
        THEN [c EXCEPT !.items[e].quantity = @ + new_item.quantity]
        ELSE [c EXCEPT !.items = Append(@, new_item)]

\* items.pop(index)
Pop(items, index) ==
    [k \in 1..(Len(items) - 1) |-> IF k <= index THEN items[k] ELSE items[k + 1]]

\* one step of a handler on the session's cart c: the cart and the
\* handler's locals after it
HandlerStep(c, l) ==
    CASE l.pc = "merge" ->
           [cart  |-> MergeNewItem(c, l.new[l.k]),
            local |-> [l EXCEPT !.k = @ + 1,
                                !.pc = IF l.k = Len(l.new) THEN "sum" ELSE "merge"]]
      [] l.pc = "modify" ->
           IF 0 <= l.index /\ l.index < Len(c.items)
           THEN [cart  |-> IF l.quantity <= 0
                           THEN [c EXCEPT !.items = Pop(@, l.index)]
                           ELSE [c EXCEPT !.items[l.index + 1].quantity = l.quantity],
                 local |-> [l EXCEPT !.pc = "sum"]]
           ELSE [cart |-> c, local |-> [l EXCEPT !.pc = "done"]]
      [] l.pc = "sum" ->
           [cart |-> c, local |-> [l EXCEPT !.sum = SumTotal(c.items, 0), !.pc = "store"]]
      [] l.pc = "store" ->
           [cart |-> [c EXCEPT !.total = l.sum], local |-> [l EXCEPT !.pc = "done"]]
      [] l.pc = "clear" ->
           [cart |-> EmptyCart, local |-> [l EXCEPT !.pc = "done"]]

RECURSIVE RunToEnd(_, _)
\* the cart after the handler ran from l to its end with no other thread
\* in between
RunToEnd(c, l) ==
    IF l.pc = "done" THEN c
    ELSE RunToEnd(HandlerStep(c, l).cart, HandlerStep(c, l).local)

\* the transcripts the handlers are given; "add" makes detect_intent
\* answer "add"
Transcripts ==
    { <<"add", "a", "coffee">>,
      <<"add", "two", "psl">>,
      <<"add", "a", "chocolate", "donut", "and", "a", "raspberry", "donut">> }

\* the handler of a transcript, from the call of parse_order on: the merge
\* loop when parse_order returned items, the total when it returned none,
\* the except clause when it raised
TranscriptHandler(nz, words) ==
    CHOOSE l \in { Local("transcript", r.value.items, 0, 0,
                          IF r.raised THEN "done"
                          ELSE IF r.value.items = <<>> THEN "sum" ELSE "merge") :
                       r \in {parse_order(nz, RawText(words))} } : TRUE

HttpHandlers(nz) ==
    { TranscriptHandler(nz, words) : words \in Transcripts }
    \cup { Local("update_item_quantity", <<>>, index, q, "modify") :
               index \in 0..1, q \in 0..MaxNewQuantity }
    \cup { Local("clear_cart", <<>>, 0, 0, "clear") }

\* the cart of the session when the two handlers start
SessionCarts(nz) ==
    { EmptyCart, parse_order(nz, RawText(<<"add", "a", "coffee">>)).value }

\* the normalizer of the server and the calls its two threads may make
SessionNormalizer == CartNormalizer(SMALL_MENU)
WsCalls == { TranscriptHandler(SessionNormalizer, words) : words \in Transcripts }
HttpCalls == HttpHandlers(SessionNormalizer)
StartCarts == SessionCarts(SessionNormalizer)

InitSession ==
    /\ cart \in StartCarts
    /\ lastOp = "Cart"
    /\ verdict = NoVerdict
    /\ nOps = 0
    /\ normalizer = SessionNormalizer
    /\ scenario = [kind |-> "session", inputs |-> <<>>]
    /\ ParseIdle
    /\ NoHarness
    /\ NoCalls
    /\ \E w \in WsCalls, h \in HttpCalls :
           session = [cart0 |-> cart, wsCall |-> w, httpCall |-> h, ws |-> w, http |-> h]

\* a step of _update_cart_from_transcript on the event-loop thread
WsStep ==
    /\ session.ws.pc # "done"
    /\ cart' = HandlerStep(cart, session.ws).cart
    /\ session' = [session EXCEPT !.ws = HandlerStep(cart, session.ws).local]
    /\ UNCHANGED <<lastOp, verdict, nOps, parseVars, harnessVars, sharedVars>>

\* a step of /api/process_transcript, /api/update_item_quantity or
\* /api/clear_cart on a request thread
HttpStep ==
    /\ session.http.pc # "done"
    /\ cart' = HandlerStep(cart, session.http).cart
    /\ session' = [session EXCEPT !.http = HandlerStep(cart, session.http).local]
    /\ UNCHANGED <<lastOp, verdict, nOps, parseVars, harnessVars, sharedVars>>

NextSession == WsStep \/ HttpStep

SpecSession == InitSession /\ [][NextSession]_vars

(***************************************************************************)
(* The shared-normalizer specification: several threads call parse_order   *)
(* on one CartNormalizer at the same time.  A call keeps its state in its  *)
(* locals and in the Cart object it makes; heap holds the Cart objects, a  *)
(* Cart being known by its place in it.                                    *)
(***************************************************************************)
\* number of threads
MaxCalls == 2

\* "cart = Cart()": the constructor makes a new object with a new list
AllocCart_shared(heap) ==
    IF heap = <<>> THEN [heap |-> <<EmptyCart>>, id |-> 1] ELSE [heap |-> heap, id |-> 1]

AllocCart(heap) == [heap |-> Append(heap, EmptyCart), id |-> Len(heap) + 1]

\* the locals of a call that has not started
CallOf(raw) ==
    [raw |-> raw, pc |-> "begin", text |-> <<>>, found |-> <<>>, filtered |-> <<>>,
     i |-> 0, items |-> <<>>, cart |-> 0, error |-> ""]

\* one step of a call: the heap and the call's locals after it.  The self
\* attributes are read only: nz is the same before and after.
CallStep(nz, heap, l) ==
    CASE l.pc = "begin" ->
           LET normalized == normalize_text(_handle_corrections(RawText(l.raw)))
               a          == AllocCart(heap)
           IN  [heap  |-> a.heap,
                local |-> [l EXCEPT !.text = normalized, !.cart = a.id,
                                    !.found = FoundMentions(normalized, nz.alias_map),
                                    !.pc = "filter"]]
      [] l.pc = "filter" /\ l.i < Len(l.found) ->
           [heap  |-> heap,
            local |-> [l EXCEPT !.filtered = FilterOne(l.found[l.i + 1], @).filtered,
                                !.i = @ + 1]]
      [] l.pc = "filter" /\ l.i = Len(l.found) ->
           LET r == ItemsOfMentions(nz, l.text, l.filtered, <<>>)
           IN  [heap  |-> heap,
                local |-> IF r.raised
                          THEN [l EXCEPT !.error = r.error, !.pc = "raised"]
                          ELSE [l EXCEPT !.items = r.value, !.pc = "add"]]
      [] l.pc = "add" ->
           [heap  |-> [heap EXCEPT ![l.cart] = AddAll(@, l.items)],
            local |-> [l EXCEPT !.pc = "merge"]]
      [] l.pc = "merge" ->
           [heap  |-> [heap EXCEPT ![l.cart] = merge_duplicates(@)],
            local |-> [l EXCEPT !.pc = "returned"]]

\* the texts of the threads, for the small menu and for the latte items of
\* the large menu
SharedTexts(menu) ==
    IF menu = SMALL_MENU
    THEN { <<"coffee">>, <<"two", "psl">>, <<"hello">>, <<"sup2", "coffee">>,
           <<"a", "chocolate", "donut", "with", "sprinkles", "and", "a", "raspberry",
             "donut">> }
    ELSE { <<"pumpkin", "spice", "latte">>, <<"cake", "donut", "pumpkin", "latte">>,
           <<"latte", "latte">> }

InitShared ==
    /\ cart = EmptyCart
    /\ lastOp = "Cart"
    /\ verdict = NoVerdict
    /\ nOps = 0
    /\ \E menu \in {SMALL_MENU, LatteMenu} :
           /\ normalizer = CartNormalizer(menu)
           /\ scenario = [kind |-> "shared", menu |-> menu, inputs |-> <<>>]
           /\ \E raws \in [1..MaxCalls -> SharedTexts(menu)] :
                  calls = [heap |-> <<>>, call |-> [c \in 1..MaxCalls |-> CallOf(raws[c])]]
    /\ ParseIdle
    /\ NoHarness
    /\ NoSession

\* a step of thread c in parse_order
ParseOrderStep(c) ==
    /\ calls.call[c].pc \notin {"returned", "raised"}
    /\ LET r == CallStep(normalizer, calls.heap, calls.call[c])
       IN  calls' = [heap |-> r.heap, call |-> [calls.call EXCEPT ![c] = r.local]]
    /\ UNCHANGED <<cartVars, parseVars, harnessVars, sessionVars>>

NextShared == \E c \in 1..MaxCalls : ParseOrderStep(c)

SpecShared == InitShared /\ [][NextShared]_vars

(***************************************************************************)
(* The index specification: a caller builds a CartNormalizer for a menu    *)
(* whose items share names, aliases and modifier synonyms.                 *)
(***************************************************************************)
\* largest number of items of those menus
MaxMenuItems == 3

\* items that collide: an alias of one is an alias or the name of another,
\* and one synonym gives another canonical modifier, also in another case
IndexPool ==
    { MenuItem("COF001", "Regular Brewed Coffee", "coffee", Dec(179), Dec(179),
          <<"coffee", "psl">>, <<>>, <<"cream">>,
          <<KV("with cream", "cream"), KV("sweet", "sugar")>>),
      MenuItem("COF002", "Pumpkin Spice Latte", "coffee", Dec(459), Dec(459),
          <<"psl", "coffee">>, <<>>, <<"whip">>,
          <<KV("with cream", "whip"), KV("sweet", "sugar")>>),
      MenuItem("COF003", "Coffee", "coffee", Dec(199), Dec(199),
          <<"regular brewed coffee">>, <<>>, <<"milk">>,
          <<KV("With Cream", "milk")>>),
      SMALL_MENU.items[2] }

IndexMenus ==
    { Menu("Menu", items, SMALL_MENU.size_synonyms, SMALL_MENU.default_sizes) :
          items \in UNION {[1..n -> IndexPool] : n \in 0..MaxMenuItems} }

\* no CartNormalizer yet
NoNormalizer == [menu |-> None, alias_map |-> <<>>, size_map |-> <<>>, modifier_map |-> <<>>]

InitIndex ==
    /\ cart = EmptyCart
    /\ lastOp = "Cart"
    /\ verdict = NoVerdict
    /\ nOps = 0
    /\ normalizer = NoNormalizer
    /\ \E menu \in IndexMenus : scenario = [kind |-> "index", inputs |-> <<>>, menu |-> menu]
    /\ ParseIdle
    /\ NoHarness
    /\ NoSession
    /\ NoCalls

\* normalizer = CartNormalizer(menu)
Construct ==
    /\ lastOp = "Cart"
    /\ normalizer' = CartNormalizer(scenario.menu)
    /\ lastOp' = "CartNormalizer"
    /\ UNCHANGED <<cart, verdict, nOps, scenario, pc, text, found_mentions, filtered_mentions,
                   i, removals, pcart, results, final, harnessVars, sessionVars, sharedVars>>

NextIndex == Construct

SpecIndex == InitIndex /\ [][NextIndex]_vars

(***************************************************************************)
(* The order specification: the calls made on one UltravoxVoiceSession one *)
(* after the other: transcripts that add items, clear_cart, confirm_order. *)
(* session holds order_history; timestamp and order_id of an entry are     *)
(* left out.                                                               *)
(***************************************************************************)
\* largest number of calls on the session
MaxOrderOps == 4

\* the dict confirm_order makes of one cart item
OrderLine(item) ==
    [name |-> item.name, quantity |-> item.quantity, price |-> item.price,
     size |-> item.size, modifiers |-> item.modifiers,
     total |-> FlMul(item.price, item.quantity)]

\* order_summary
OrderSummary(c) ==
    [items |-> [k \in DOMAIN c.items |-> OrderLine(c.items[k])],
     total |-> c.total, status |-> "confirmed"]

\* confirm_order that keeps the cart
confirm_order_without_clear(c, history) ==
    IF c.items = <<>>
    THEN [cart |-> c, order_history |-> history, success |-> FALSE]
    ELSE [cart |-> c, order_history |-> Append(history, OrderSummary(c)), success |-> TRUE]

\* self.confirm_order(): the cart and order_history it leaves, and the
\* "success" of the dict it returns
confirm_order(c, history) ==
    IF c.items = <<>>
    THEN [cart |-> c, order_history |-> history, success |-> FALSE]
    ELSE [cart |-> EmptyCart, order_history |-> Append(history, OrderSummary(c)),
          success |-> TRUE]

InitOrders ==
    /\ cart = EmptyCart
    /\ lastOp = "Cart"
    /\ verdict = NoVerdict
    /\ nOps = 0
    /\ normalizer = SessionNormalizer
    /\ scenario = [kind |-> "orders", inputs |-> <<>>]
    /\ ParseIdle
    /\ NoHarness
    /\ NoCalls
    /\ session = [order_history |-> <<>>]

\* a call on the session that is not confirm_order
OrderCall(op) ==
    /\ nOps < MaxOrderOps
    /\ nOps' = nOps + 1
    /\ lastOp' = op
    /\ verdict' = NoVerdict
    /\ UNCHANGED <<parseVars, harnessVars, sessionVars, sharedVars>>

\* _update_cart_from_transcript for a transcript that adds items
Transcript ==
    /\ \E w \in WsCalls : cart' = RunToEnd(cart, w)
    /\ OrderCall("_update_cart_from_transcript")

ClearCart ==
    /\ cart' = EmptyCart
    /\ OrderCall("clear_cart")

ConfirmOrder ==
    /\ nOps < MaxOrderOps
    /\ nOps' = nOps + 1
    /\ lastOp' = "confirm_order"
    /\ LET r == confirm_order(cart, session.order_history)
       IN  /\ cart' = r.cart
           /\ session' = [session EXCEPT !.order_history = r.order_history]
           /\ verdict' = [op |-> "confirm_order", actual |-> cart,
                          history |-> session.order_history, success |-> r.success]
    /\ UNCHANGED <<parseVars, harnessVars, sharedVars>>

NextOrders ==
    \/ Transcript
    \/ ClearCart
    \/ ConfirmOrder

SpecOrders == InitOrders /\ [][NextOrders]_vars

(***************************************************************************)
(* SmartCartParser (src/smart_cart_parser.py) and the handler of a final   *)
(* agent transcript, _update_cart_from_agent_confirmation.                 *)
(***************************************************************************)
quantity_map ==
    <<KV("zero", 0), KV("no", 0), KV("none", 0), KV("one", 1), KV("a", 1), KV("an", 1),
      KV("single", 1), KV("two", 2), KV("three", 3), KV("four", 4), KV("five", 5),
      KV("six", 6), KV("seven", 7), KV("eight", 8), KV("nine", 9), KV("ten", 10),
      KV("eleven", 11), KV("twelve", 12), KV("dozen", 12)>>

\* the alternatives of the first group of every pattern, before \d+
QuantityAlternatives ==
    <<"zero", "no", "none", "one", "a", "an", "single", "two", "three", "four", "five",
      "six", "seven", "eight", "nine", "ten", "eleven", "twelve">>

\* the alternatives of the size group
SizeAlternatives == <<"large", "medium", "small">>

\* a pattern: the words of the name (joined by \s+, then [s]?), whether it
\* has the size group, whether it ends in (?!\s*(?:pumpkin|spice))
Pattern(words, sized, lookahead, item_name) ==
    [words |-> words, sized |-> sized, lookahead |-> lookahead, item_name |-> item_name]

item_patterns ==
    << Pattern(<<"regular", "brewed", "coffee">>, TRUE, FALSE, "Regular Brewed Coffee"),
       Pattern(<<"pumpkin", "spice", "latte">>, TRUE, FALSE, "Pumpkin Spice Latte"),
       Pattern(<<"latte">>, TRUE, TRUE, "Latte"),
       Pattern(<<"pumpkin", "spice", "iced", "doughnut">>, FALSE, FALSE,
               "Pumpkin Spice Iced Doughnut"),
       Pattern(<<"chocolate", "iced", "doughnut">>, FALSE, FALSE, "Chocolate Iced Doughnut"),
       Pattern(<<"raspberry", "filled", "doughnut">>, FALSE, FALSE,
               "Raspberry Filled Doughnut") >>

\* the literal lit stands at offset p of txt
StartsWith(txt, p, lit) ==
    p + Len(lit) <= Len(txt) /\ Slice(txt, p, p + Len(lit)) = lit

RECURSIVE SkipSpaces(_, _)
\* the offset \s* reaches from p
SkipSpaces(txt, p) ==
    IF p < Len(txt) /\ IsSpace(txt[p + 1]) THEN SkipSpaces(txt, p + 1) ELSE p

RECURSIVE SkipDigits(_, _)
\* the offset \d* reaches from p
SkipDigits(txt, p) ==
    IF p < Len(txt) /\ txt[p + 1] \in Digits THEN SkipDigits(txt, p + 1) ELSE p

\* those of the alternatives that stand at offset p, in their order
Standing(txt, p, alternatives) ==
    SelectSeq([k \in DOMAIN alternatives |-> Spell[alternatives[k]]],
              LAMBDA lit : StartsWith(txt, p, lit))

\* what the optional first group can match at p, in the order the regex
\* engine tries: the alternatives, \d+, and last nothing
QuantityOptions(txt, p) ==
    Standing(txt, p, QuantityAlternatives)
    \o (IF SkipDigits(txt, p) > p THEN <<Slice(txt, p, SkipDigits(txt, p))>> ELSE <<>>)
    \o << <<>> >>

\* what the optional size group can match at p, nothing last
SizeOptions(txt, p, sized) ==
    (IF sized
     THEN Standing(txt, p, SizeAlternatives)
     ELSE <<>>)
    \o << <<>> >>

RECURSIVE NameEnd(_, _, _)
\* the offset after word\s+word...\s+word matched from p, or -1
NameEnd(txt, p, words) ==
    IF ~ StartsWith(txt, p, Spell[Head(words)]) THEN -1
    ELSE LET q == p + Len(Spell[Head(words)])
         IN  IF Len(words) = 1 THEN q
             ELSE IF SkipSpaces(txt, q) = q THEN -1
             ELSE NameEnd(txt, SkipSpaces(txt, q), Tail(words))

\* (?!\s*(?:pumpkin|spice)) holds at p
LookaheadHolds(txt, p) ==
    /\ ~ StartsWith(txt, SkipSpaces(txt, p), Spell["pumpkin"])
    /\ ~ StartsWith(txt, SkipSpaces(txt, p), Spell["spice"])

\* the offset after name[s]? and the lookahead from p, or -1: with the s
\* first, then without it
TailEnd(txt, p, pat) ==
    LET q == NameEnd(txt, p, pat.words)
    IN  IF q = -1 THEN -1
        ELSE IF StartsWith(txt, q, <<"s">>) /\ (~ pat.lookahead \/ LookaheadHolds(txt, q + 1))
             THEN q + 1
        ELSE IF ~ pat.lookahead \/ LookaheadHolds(txt, q) THEN q
        ELSE -1

\* no match
NoMatch == [end |-> -1, quantity |-> <<>>, size |-> <<>>]

RECURSIVE FirstSize(_, _, _, _, _)
\* the match with the first of sizes after which the rest of the pattern
\* matches, q being the offset after the first group and \s*
FirstSize(txt, q, pat, quantity, sizes) ==
    IF sizes = <<>> THEN NoMatch
    ELSE CHOOSE out \in
           { IF e # -1 THEN [end |-> e, quantity |-> quantity, size |-> Head(sizes)]
             ELSE FirstSize(txt, q, pat, quantity, Tail(sizes)) :
             e \in {TailEnd(txt, SkipSpaces(txt, q + Len(Head(sizes))), pat)} } : TRUE

RECURSIVE FirstQuantity(_, _, _, _)
\* the match with the first of quantities after which the rest matches
FirstQuantity(txt, p, pat, quantities) ==
    IF quantities = <<>> THEN NoMatch
    ELSE CHOOSE out \in
           { IF m.end # -1 THEN m ELSE FirstQuantity(txt, p, pat, Tail(quantities)) :
             m \in { FirstSize(txt, q, pat, Head(quantities), SizeOptions(txt, q, pat.sized)) :
                     q \in {SkipSpaces(txt, p + Len(Head(quantities)))} } } : TRUE

\* the match of the pattern that starts at p: its end and its two groups,
\* or NoMatch
MatchAt(txt, p, pat) ==
    CHOOSE out \in { FirstQuantity(txt, p, pat, qs) : qs \in {QuantityOptions(txt, p)} } : TRUE

RECURSIVE FindAll(_, _, _)
\* re.findall(pattern, text) from offset from: the matches, left to right
FindAll(txt, from, pat) ==
    CHOOSE out \in
      { IF starts = {} THEN <<>>
        ELSE CHOOSE rest \in { <<m>> \o FindAll(txt, m.end, pat) :
                               m \in {MatchAt(txt, Min(starts), pat)} } : TRUE :
        starts \in { {p \in from..(Len(txt) - 1) : MatchAt(txt, p, pat).end # -1} } } : TRUE

\* the int of quantity_str
QuantityOf(quantity_str) ==
    IF IsDigitStr(quantity_str) THEN DecimalValue(quantity_str)
    ELSE IF \E k \in DOMAIN quantity_map : Spell[quantity_map[k].key] = quantity_str
         THEN quantity_map[CHOOSE k \in DOMAIN quantity_map :
                               Spell[quantity_map[k].key] = quantity_str].value
         ELSE 1

\* the size word as the name the model gives a size
SizeName(size) ==
    IF \E k \in DOMAIN SizeAlternatives : Spell[SizeAlternatives[k]] = size
    THEN SizeAlternatives[CHOOSE k \in DOMAIN SizeAlternatives : Spell[SizeAlternatives[k]] = size]
    ELSE "regular"

\* the dict appended for one match: a pattern with one group gives findall
\* a str per match, and then quantity and size are 'one' and 'regular'
ItemData(menu, pat, match) ==
    LET quantity_str == IF pat.sized /\ match.quantity # <<>> THEN match.quantity
                        ELSE Spell["one"]
        size     == IF pat.sized /\ match.size # <<>> THEN match.size ELSE Spell["regular"]
        quantity == QuantityOf(quantity_str)
        hits     == {k \in DOMAIN menu.items :
                         Contains(LowerStr(Spell[menu.items[k].name]),
                                  LowerStr(Spell[pat.item_name]))}
    IN  IF quantity <= 0 \/ hits = {} THEN <<>>
        ELSE << [name |-> menu.items[Min(hits)].name, quantity |-> quantity,
                 price |-> menu.items[Min(hits)].price, size |-> SizeName(size),
                 modifiers |-> <<>>] >>

RECURSIVE ItemsOfMatches(_, _, _)
ItemsOfMatches(menu, pat, matches) ==
    IF matches = <<>> THEN <<>>
    ELSE ItemData(menu, pat, Head(matches)) \o ItemsOfMatches(menu, pat, Tail(matches))

RECURSIVE ItemsOfPatterns(_, _, _)
ItemsOfPatterns(menu, txt, patterns) ==
    IF patterns = <<>> THEN <<>>
    ELSE ItemsOfMatches(menu, Head(patterns), FindAll(txt, 0, Head(patterns)))
         \o ItemsOfPatterns(menu, txt, Tail(patterns))

_extract_items_from_text(menu, txt) == ItemsOfPatterns(menu, txt, item_patterns)

RemovalPhrases ==
    <<"removed", "removing", "taking out", "now you just have", "only have", "took off",
      "deleted">>

FinalStatePhrases ==
    <<"now you just have", "now you have", "your order is now", "you only have",
      "that leaves you with">>

\* any(phrase in txt for phrase in phrases)
AnyIn(txt, phrases) == \E k \in DOMAIN phrases : Contains(txt, Spell[phrases[k]])

\* txt.split(phrase)[1]
SplitSecond(txt, phrase) ==
    LET rest == Slice(txt, Find(txt, phrase) + Len(phrase), Len(txt))
    IN  IF Contains(rest, phrase) THEN Slice(rest, 0, Find(rest, phrase)) ELSE rest

parse_agent_text(menu, txt) ==
    LET text_lower == LowerStr(txt)
        first == Min({k \in DOMAIN FinalStatePhrases :
                          Contains(text_lower, Spell[FinalStatePhrases[k]])})
    IN  [items |-> IF AnyIn(text_lower, FinalStatePhrases)
                   THEN _extract_items_from_text(menu,
                            SplitSecond(text_lower, Spell[FinalStatePhrases[first]]))
                   ELSE _extract_items_from_text(menu, text_lower),
         is_removal |-> AnyIn(text_lower, RemovalPhrases)]

\* the body of _update_cart_from_agent_confirmation after parse_agent_text:
\* on a replacement self.cart = Cart() and then, for the first parsed item,
\* CartItem(name=, quantity=, price=, size=, modifiers=) without the
\* required sku: a TypeError that except Exception logs, before the total
\* is recalculated and cart_update is emitted
AgentCart(c, replace, items) ==
    IF replace /\ items # <<>>
    THEN [cart |-> EmptyCart, raised |-> TRUE, emitted |-> FALSE]
    ELSE IF replace
    THEN [cart |-> EmptyCart, raised |-> FALSE, emitted |-> TRUE]
    ELSE [cart |-> [c EXCEPT !.total = SumTotal(c.items, 0)], raised |-> FALSE,
          emitted |-> TRUE]

\* the replacement condition of the handler
IsReplacement(txt, is_removal) ==
    /\ is_removal
    /\ \/ Contains(LowerStr(txt), Spell["now you just have"])
       \/ Contains(LowerStr(txt), Spell["now you have"])

\* largest number of final agent transcripts
MaxAgentCalls == 2

\* how agent transcripts begin, go on and end
AgentLeads == {<<"removed", "the", "donut">>, <<"i", "took", "off", "the", "coffee">>, <<"ok">>}
AgentPhrases ==
    {<<>>, <<"now", "you", "have">>, <<"now", "you", "just", "have">>,
     <<"your", "order", "is", "now">>}
AgentOrders ==
    {<<>>, <<"nothing">>, <<"a", "latte">>,
     <<"two", "large", "pumpkin", "spice", "lattes">>,
     <<"a", "regular", "brewed", "coffee">>,
     <<"3", "small", "regular", "brewed", "coffees", "and", "two", "chocolate", "iced",
       "doughnuts">>}

AgentTexts == {a \o b \o c : a \in AgentLeads, b \in AgentPhrases, c \in AgentOrders}

\* every agent transcript with what parse_agent_text returns for it and
\* whether the handler takes it for a replacement
AgentParses ==
    {[words |-> w, parsed |-> parse_agent_text(SMALL_MENU, RawText(w)),
      replace |-> IsReplacement(RawText(w), parse_agent_text(SMALL_MENU, RawText(w)).is_removal)] :
     w \in AgentTexts}

InitAgent ==
    /\ cart \in StartCarts
    /\ lastOp = "Cart"
    /\ verdict = NoVerdict
    /\ nOps = 0
    /\ normalizer = SessionNormalizer
    /\ scenario = [kind |-> "agent", inputs |-> AgentParses]
    /\ ParseIdle
    /\ NoHarness
    /\ NoCalls
    /\ session = [order_history |-> <<>>]

\* _update_cart_from_agent_confirmation(text)
AgentConfirmation ==
    /\ nOps < MaxAgentCalls
    /\ nOps' = nOps + 1
    /\ lastOp' = "_update_cart_from_agent_confirmation"
    /\ \E p \in scenario.inputs :
         LET replace == p.replace
             r == AgentCart(cart, replace, p.parsed.items)
         IN  /\ cart' = r.cart
             /\ verdict' = [op |-> "agent", words |-> p.words, items |-> p.parsed.items,
                            is_removal |-> p.parsed.is_removal, replace |-> replace,
                            raised |-> r.raised, emitted |-> r.emitted]
    /\ UNCHANGED <<parseVars, harnessVars, sessionVars, sharedVars>>

NextAgent == AgentConfirmation

SpecAgent == InitAgent /\ [][NextAgent]_vars

(***************************************************************************)
(* NLPProcessor (src/nlp_processor.py).  A confidence is the fraction      *)
(* [num, den]: the literals 0.95, 0.90, 0.85 and a score matches / len.    *)
(***************************************************************************)
Fraction(num, den) == [num |-> num, den |-> den]

\* a < b for two fractions
FractionLess(a, b) == a.num * b.den < b.num * a.den

\* each pattern is \b(alternative|...)\b
add_patterns ==
    << <<"add", "get", "give", "want", "like", "need", "order", "have", "take">>,
       <<"I'd like", "I would like", "I want", "I need", "I'll take", "I'll have">>,
       <<"can I get", "could I get", "may I have">> >>

remove_patterns ==
    << <<"remove", "delete", "take out", "take off", "don't want", "don't need", "cancel",
         "scratch">>,
       <<"no", "not", "without">>,
       <<"change my mind", "never mind", "forget">> >>

modify_patterns ==
    << <<"change", "modify", "update", "switch", "replace", "instead">>,
       <<"make it", "make that">> >>

query_patterns ==
    << <<"what", "how much", "how many", "total", "price", "cost">>,
       <<"do I have", "what's in", "show me">> >>

confirm_patterns ==
    << <<"yes", "yeah", "yep", "correct", "right", "that's right", "sounds good", "perfect">>,
       <<"confirm", "proceed", "go ahead", "place order">>,
       <<"confirm my order", "confirm the order", "place the order", "finalize", "pay">> >>

cancel_patterns == << <<"cancel", "stop", "abort", "never mind", "forget it">> >>

\* re.search(pattern, text) for a pattern \b(alternative|...)\b
SearchPattern(txt, alternatives) ==
    \E k \in DOMAIN alternatives : SearchWord(txt, Spell[alternatives[k]])

_calculate_intent_score(txt, patterns) ==
    Fraction(Cardinality({k \in DOMAIN patterns : SearchPattern(txt, patterns[k])}),
             Len(patterns))

\* intent_scores, in the order of the dict
IntentScores(txt) ==
    << KV("add", _calculate_intent_score(txt, add_patterns)),
       KV("remove", _calculate_intent_score(txt, remove_patterns)),
       KV("modify", _calculate_intent_score(txt, modify_patterns)),
       KV("query", _calculate_intent_score(txt, query_patterns)),
       KV("confirm", _calculate_intent_score(txt, confirm_patterns)),
       KV("cancel", _calculate_intent_score(txt, cancel_patterns)) >>

\* max(intent_scores.items(), key=lambda x: x[1]): the first of the highest
BestIntent(scores) ==
    scores[Min({k \in DOMAIN scores :
                    \A j \in DOMAIN scores : ~ FractionLess(scores[k].value, scores[j].value)})]

\* the return of detect_intent once the three priority checks have failed
ScoredIntent(best) ==
    IF FractionLess(best.value, Fraction(3, 10)) THEN KV("unknown", best.value) ELSE best

\* detect_intent(text): the pair (intent_type, confidence) as [key, value]
detect_intent(txt) ==
    LET text_lower == LowerStr(txt)
    IN  IF /\ AnyIn(text_lower, <<"remove", "delete", "take out", "take off", "don't want",
                                  "don't need", "cancel", "scratch">>)
           /\ AnyIn(text_lower, <<"remove", "delete", "take out">>)
        THEN KV("remove", Fraction(95, 100))
        ELSE IF /\ AnyIn(text_lower, <<"add", "get", "want", "need", "order", "have", "take">>)
                /\ ~ AnyIn(text_lower, <<"don't want", "don't need", "don't have">>)
        THEN KV("add", Fraction(90, 100))
        ELSE IF AnyIn(text_lower, <<"confirm", "yes", "yeah", "correct", "right",
                                    "that's right">>)
        THEN KV("confirm", Fraction(85, 100))
        ELSE CHOOSE out \in { ScoredIntent(BestIntent(scores)) :
                              scores \in {IntentScores(text_lower)} } : TRUE

\* number_map of extract_quantity, in its order
number_map ==
    <<KV("one", 1), KV("two", 2), KV("three", 3), KV("four", 4), KV("five", 5),
      KV("six", 6), KV("seven", 7), KV("eight", 8), KV("nine", 9), KV("ten", 10)>>

\* the offsets where \b(\d+)\b matches
DigitRuns(txt) ==
    {q \in 0..(Len(txt) - 1) :
        /\ WordBoundary(txt, q)
        /\ SkipDigits(txt, q) > q
        /\ WordBoundary(txt, SkipDigits(txt, q))}

extract_quantity(txt) ==
    LET text_lower == LowerStr(txt)
        words == {k \in DOMAIN number_map : Contains(text_lower, Spell[number_map[k].key])}
    IN  IF words # {} THEN number_map[Min(words)].value
        ELSE IF DigitRuns(txt) # {}
        THEN DecimalValue(Slice(txt, Min(DigitRuns(txt)), SkipDigits(txt, Min(DigitRuns(txt)))))
        ELSE 1

\* size_map of extract_size, in its order
nlp_size_map ==
    <<KV("small", "small"), KV("medium", "medium"), KV("large", "large"),
      KV("regular", "medium"), KV("venti", "large"), KV("grande", "large")>>

\* extract_size(text): None or the size of the first keyword in the text
extract_size(txt) ==
    LET keywords == {k \in DOMAIN nlp_size_map :
                         Contains(LowerStr(txt), Spell[nlp_size_map[k].key])}
    IN  IF keywords = {} THEN None ELSE nlp_size_map[Min(keywords)].value

\* the name or an alias of the menu item is in the text
ItemIn(item, text_lower) ==
    \/ Contains(text_lower, LowerStr(Spell[item.name]))
    \/ \E k \in DOMAIN item.aliases : Contains(text_lower, LowerStr(Spell[item.aliases[k]]))

\* extract_menu_item(text): <<>> for None, else the first menu item found
extract_menu_item(menu, txt) ==
    LET found == {k \in DOMAIN menu.items : ItemIn(menu.items[k], LowerStr(txt))}
    IN  IF found = {} THEN <<>> ELSE <<menu.items[Min(found)]>>

\* what an operation returns and the cart it leaves
Outcome(operation, success, c) == [operation |-> operation, success |-> success, cart |-> c]

\* the items of the cart with the name of the menu item
Named(items, name) == SelectSeq(items, LAMBDA item : item.name = name)
NotNamed(items, name) == SelectSeq(items, LAMBDA item : item.name # name)

RECURSIVE RegularRemove(_, _, _, _, _, _)
\* the loop of the regular remove over current_cart.items from index k, and
\* the removal after it: kept are the items passed so far that stay
RegularRemove(c, name, quantity, size, k, kept) ==
    IF k > Len(c.items)
    THEN Outcome("remove", Len(kept) < Len(c.items), [c EXCEPT !.items = kept])
    ELSE LET item == c.items[k]
         IN  IF item.name = name /\ (size = None \/ item.size = size)
             THEN IF item.quantity > quantity
                  THEN Outcome("remove", TRUE,
                               [c EXCEPT !.items[k].quantity = item.quantity - quantity])
                  ELSE RegularRemove(c, name, quantity, size, k + 1, kept)
             ELSE RegularRemove(c, name, quantity, size, k + 1, Append(kept, item))

\* the body of _process_remove, given what the extract_ methods return: the
\* items change and current_cart.total stays as it was
RemoveParsed(c, text_lower, menu_item, quantity, size) ==
    IF menu_item = <<>> THEN Outcome("remove", FALSE, c)
    ELSE IF AnyIn(text_lower, <<"remove all", "take out all", "delete all">>)
             /\ Named(c.items, menu_item[1].name) # <<>>
    THEN Outcome("remove", TRUE, [c EXCEPT !.items = NotNamed(c.items, menu_item[1].name)])
    ELSE IF AnyIn(text_lower, <<"just keep", "keep only", "only keep">>)
             /\ Named(c.items, menu_item[1].name) # <<>>
    THEN Outcome("remove", TRUE,
                 [c EXCEPT !.items =
                      Append(NotNamed(c.items, menu_item[1].name),
                             [Named(c.items, menu_item[1].name)[1] EXCEPT !.quantity = 1])])
    ELSE RegularRemove(c, menu_item[1].name, quantity, size, 1, <<>>)

_process_remove(menu, txt, c) ==
    CHOOSE out \in
      { RemoveParsed(c, text_lower, menu_item, quantity, size) :
        text_lower \in {LowerStr(txt)}, menu_item \in {extract_menu_item(menu, txt)},
        quantity \in {extract_quantity(txt)}, size \in {extract_size(txt)} } : TRUE

\* process_cart_operation(text, current_cart); _process_add, _process_modify
\* and _process_query leave the cart as it is
process_cart_operation(menu, txt, c) ==
    CHOOSE out \in
      { IF intent.key = "remove" THEN _process_remove(menu, txt, c)
        ELSE IF intent.key = "add" THEN Outcome("add", extract_menu_item(menu, txt) # <<>>, c)
        ELSE IF intent.key = "modify" THEN Outcome("modify", FALSE, c)
        ELSE IF intent.key \in {"query", "confirm", "cancel"} THEN Outcome(intent.key, TRUE, c)
        ELSE Outcome("unknown", FALSE, c) :
        intent \in {detect_intent(txt)} } : TRUE

\* largest number of utterances given to the processor
MaxUtterances == 2

\* the utterances
Utterances ==
    { <<"remove", "coffee">>,
      <<"remove", "two", "coffee">>,
      <<"remove", "all", "coffee">>,
      <<"remove", "the", "large", "coffee">>,
      <<"take", "out", "a", "chocolate", "donut">>,
      <<"delete", "psl">>,
      <<"remove", "hello">>,
      <<"no", "just", "keep", "one", "coffee">>,
      <<"no", "coffee">>,
      <<"i", "don't", "want", "coffee">>,
      <<"don't", "need", "it">>,
      <<"no", "i", "don't", "want", "the", "coffee">>,
      <<"i", "don't", "want", "to", "remove", "coffee">>,
      <<"please", "remove", "what", "i", "want">>,
      <<"yes", "i", "don't", "want", "it">>,
      <<"I", "want", "to", "delete", "the", "order">>,
      <<"add", "a", "coffee">>,
      <<"what", "is", "the", "total">>,
      <<"change", "it">>,
      <<"never", "mind">>,
      <<"hello">> }

\* the lines a session cart may hold
NlpLines ==
    << CartItem("COF001", "Regular Brewed Coffee", 3, "medium", <<>>, Dec(209)),
       CartItem("COF001", "Regular Brewed Coffee", 1, "large", <<>>, Dec(239)),
       CartItem("DON002", "Chocolate Iced Doughnut", 2, None, <<>>, Dec(109)),
       CartItem("COF002", "Pumpkin Spice Latte", 1, "small", <<>>, Dec(459)) >>

\* the carts the first utterance meets, built by add_item
NlpCarts ==
    { EmptyCart,
      add_item(EmptyCart, NlpLines[1]),
      add_item(add_item(EmptyCart, NlpLines[1]), NlpLines[2]),
      add_item(add_item(add_item(EmptyCart, NlpLines[3]), NlpLines[1]), NlpLines[4]),
      add_item(add_item(add_item(EmptyCart, NlpLines[2]), NlpLines[3]), NlpLines[1]) }

InitNlp ==
    /\ cart \in NlpCarts
    /\ lastOp = "Cart"
    /\ verdict = NoVerdict
    /\ nOps = 0
    /\ normalizer = SessionNormalizer
    /\ scenario = [kind |-> "nlp", inputs |-> <<>>]
    /\ ParseIdle
    /\ NoHarness
    /\ NoCalls
    /\ session = [order_history |-> <<>>]

\* nlp.process_cart_operation(text, cart)
ProcessCartOperation ==
    /\ nOps < MaxUtterances
    /\ nOps' = nOps + 1
    /\ lastOp' = "process_cart_operation"
    /\ \E words \in Utterances :
         \E r \in {process_cart_operation(SMALL_MENU, RawText(words), cart)} :
             /\ cart' = r.cart
             /\ verdict' = [op |-> "process_cart_operation", words |-> words,
                            intent |-> detect_intent(RawText(words)),
                            operation |-> r.operation, success |-> r.success,
                            before |-> cart]
    /\ UNCHANGED <<parseVars, harnessVars, sessionVars, sharedVars>>

NextNlp == ProcessCartOperation

SpecNlp == InitNlp /\ [][NextNlp]_vars

(***************************************************************************)
(* Claims about Cart and CartEvaluator.                                    *)
(***************************************************************************)
\* C1: after any sequence of add_item, remove_item, update_item and
\* merge_duplicates calls from an empty Cart, cart.total equals the sum over
\* cart.items of price * quantity.
C1_TotalIsSum == cart.total = SumTotal(cart.items, 0)

\* C2: calling merge_duplicates twice leaves the item list and the total
\* identical to calling it once: a cart that merge_duplicates returned is
\* left as it is by another merge_duplicates.
C2_MergeIdempotent ==
    lastOp = "merge_duplicates" => merge_duplicates(cart) = cart

\* a merged cart one of whose lines absorbed a line of another price, and
\* one whose line absorbed a line listing its modifiers in another order
C2_Witness ==
    /\ lastOp = "merge_duplicates"
    /\ \E k \in DOMAIN cart.items :
           \/ cart.items[k].price = Dec(179) /\ cart.items[k].modifiers = <<"cream">>
              /\ cart.items[k].quantity > 1
           \/ cart.items[k].modifiers = <<"sugar", "cream">>
              /\ cart.items[k].quantity > 1

\* C9: after merge_duplicates no two distinct items of the cart are the same
\* entity (equal sku, equal size, equal set of modifiers: CartItem.__eq__).
C9_NoEqualItemsAfterMerge ==
    lastOp = "merge_duplicates" =>
        \A j, k \in DOMAIN cart.items :
            j # k => ~ ItemEq(cart.items[j], cart.items[k])

\* C10: exact_match(cart, cart') is true when cart' holds the items of cart
\* in reversed order, merged or not.
C10_ExactMatchReversed ==
    (verdict.op = "exact_match"
        /\ verdict.expected.items = Reversed(verdict.actual.items))
    => verdict.result = [raised |-> FALSE, value |-> TRUE]

\* the skus of a cart's items
SkuSet(c) == { c.items[k].sku : k \in DOMAIN c.items }

\* C11 as stated: calculate_f1(cart, cart) is 1.0 for every non-empty cart,
\* and calculate_f1(a, b) is 0.0 for every two carts whose sets of skus are
\* disjoint.
C11_F1SelfAndDisjoint ==
    verdict.op = "calculate_f1" =>
        /\ (verdict.expected = verdict.actual /\ verdict.actual.items # <<>>)
               => verdict.result.value = FlInt(1)
        /\ (SkuSet(verdict.actual) \cap SkuSet(verdict.expected) = {})
               => verdict.result.value = 0

\* the cart holds a line of quantity 1 or more
HasUnit(c) == \E k \in DOMAIN c.items : c.items[k].quantity >= 1

\* C11 as amended: calculate_f1(cart, cart) is 1.0 for every non-empty
\* cart; calculate_f1(a, b) is 0.0 for every two carts with disjoint sets
\* of skus of which one at least holds a line of quantity 1 or more, and
\* 1.0 for two carts that hold no such line (two empty carts).
C11_F1SelfAndDisjointUnits ==
    verdict.op = "calculate_f1" =>
        /\ (verdict.expected = verdict.actual /\ verdict.actual.items # <<>>)
               => verdict.result.value = FlInt(1)
        /\ (SkuSet(verdict.actual) \cap SkuSet(verdict.expected) = {}
               /\ (HasUnit(verdict.actual) \/ HasUnit(verdict.expected)))
               => verdict.result.value = 0
        /\ (~ HasUnit(verdict.actual) /\ ~ HasUnit(verdict.expected))
               => verdict.result.value = FlInt(1)

\* calculate_f1 has returned for two non-empty carts with disjoint skus,
\* each holding a line of quantity 1 or more
C11_Witness ==
    /\ verdict.op = "calculate_f1"
    /\ SkuSet(verdict.actual) \cap SkuSet(verdict.expected) = {}
    /\ HasUnit(verdict.actual) /\ HasUnit(verdict.expected)
    /\ verdict.result.value = 0

\* two lines with equal sku, quantity, size and set of modifiers
SameLine(a, e) ==
    /\ a.sku = e.sku
    /\ a.quantity = e.quantity
    /\ a.size = e.size
    /\ ToSet(a.modifiers) = ToSet(e.modifiers)

\* the items of the two carts can be paired one-to-one, equal line with
\* equal line
Pairable(as, es) ==
    /\ Len(as) = Len(es)
    /\ \E p \in [DOMAIN as -> DOMAIN es] :
           /\ \A j, k \in DOMAIN as : j # k => p[j] # p[k]
           /\ \A k \in DOMAIN as : SameLine(as[k], es[p[k]])

\* C20: exact_match(actual, expected) is true whenever the two carts have
\* the same number of items and the items can be paired one-to-one with
\* equal sku, quantity, size and modifier set, in whatever order an item
\* lists its modifiers.
C20_ExactMatchPairing ==
    (verdict.op = "exact_match"
        /\ Pairable(verdict.actual.items, verdict.expected.items))
    => verdict.result = [raised |-> FALSE, value |-> TRUE]

\* the item of the menu with the sku
MenuItemOf(menu, sku) ==
    menu.items[CHOOSE k \in DOMAIN menu.items : menu.items[k].sku = sku]

\* base price plus size_variations[size] when the size is a key of the
\* item's size-variation table, the base price otherwise
PriceFor(item, size) ==
    IF size # None /\ \E k \in DOMAIN item.size_variations : item.size_variations[k].key = size
    THEN FlAdd(item.base_price,
               item.size_variations[CHOOSE k \in DOMAIN item.size_variations :
                                        item.size_variations[k].key = size].value)
    ELSE item.base_price

\* the last parse_order call has returned a cart
Returned == pc = "idle" /\ results # <<>> /\ ~ results[Len(results)].raised
LastCart == results[Len(results)].value

\* C14: the price of every item of a cart parse_order returns is the menu
\* item's base price plus size_variations[size] when a size was resolved
\* and is a key of the item's size-variation table, and the base price
\* otherwise; to_dict emits each item's price unchanged and rounds only the
\* total, to 2 decimal places.
C14_PriceAndToDict ==
    Returned =>
        /\ \A k \in DOMAIN LastCart.items :
               /\ LastCart.items[k].price =
                      PriceFor(MenuItemOf(normalizer.menu, LastCart.items[k].sku),
                               LastCart.items[k].size)
               /\ final.items[k].price = LastCart.items[k].price
        /\ Len(final.items) = Len(LastCart.items)
        /\ final.total = Round2(LastCart.total)

\* a returned cart with an item priced with a size delta above 0 and a
\* total that to_dict rounds to another float
C14_Witness ==
    /\ Returned
    /\ \E k \in DOMAIN LastCart.items :
           LastCart.items[k].price > MenuItemOf(normalizer.menu, LastCart.items[k].sku).base_price
    /\ final.total # LastCart.total

\* C15: when the websocket transcript handler and an HTTP handler act on
\* the same session at the same time, every interleaving ends in a cart
\* that some serial order of the two handlers produces; no quantity
\* increment and no added line is lost.
C15_HandlersSerialized ==
    (session.ws.handler # "none" /\ session.ws.pc = "done" /\ session.http.pc = "done")
    => cart \in { RunToEnd(RunToEnd(session.cart0, session.wsCall), session.httpCall),
                  RunToEnd(RunToEnd(session.cart0, session.httpCall), session.wsCall) }

\* C16: parse_order leaves the normalizer's alias_map, size_map and
\* modifier_map and the Menu unchanged and returns a Cart object that no
\* earlier or concurrent call holds; the cart returned for a text is the
\* same whatever other parse_order calls ran before it or interleave with it
\* on the same CartNormalizer.
C16_ParseOrderIsolated ==
    /\ normalizer = CartNormalizer(scenario.menu)
    /\ \A c, d \in DOMAIN calls.call :
           (c # d /\ calls.call[c].cart # 0) => calls.call[c].cart # calls.call[d].cart
    /\ \A c \in DOMAIN calls.call :
           LET l == calls.call[c]
               alone == parse_order(normalizer, RawText(l.raw))
           IN  /\ l.pc = "returned" => (~ alone.raised /\ calls.heap[l.cart] = alone.value)
               /\ l.pc = "raised" => (alone.raised /\ alone.error = l.error)

\* two calls have returned carts with items, the second having started
\* before the first returned (the first Cart made is the first call's, and
\* the second call made its Cart second)
C16_Witness ==
    /\ Len(calls.call) >= 2
    /\ calls.call[1].pc = "merge"
    /\ calls.call[2].pc = "returned"
    /\ calls.call[1].cart = 1
    /\ calls.heap[1].items # <<>>
    /\ calls.heap[2].items # <<>>

\* the accepted mentions that candidate m intersects
Hits(m, accepted) == {p \in ToSet(accepted) : Overlap(m, p)}

\* accepted without the mentions of the set gone
Without(accepted, gone) ==
    LET Keep(p) == p \notin gone IN SelectSeq(accepted, Keep)

\* C17: in overlap resolution the candidates are processed in ascending
\* start offset; a candidate that intersects no accepted mention is
\* accepted; one that intersects an accepted mention replaces it only when
\* its alias is strictly longer, and is discarded, the accepted mention
\* staying, when its alias is shorter or of equal length.
C17_OverlapResolution ==
    [][ (pc = "filter" /\ i' = i + 1) =>
          LET m    == found_mentions[i + 1]
              hits == Hits(m, filtered_mentions)
          IN  /\ \A j \in 1..i : found_mentions[j].start <= m.start
              /\ (\A p \in hits : Len(m.alias) > Len(p.alias))
                     => filtered_mentions' = Append(Without(filtered_mentions, hits), m)
              /\ (\E p \in hits : Len(m.alias) <= Len(p.alias))
                     => filtered_mentions' = filtered_mentions ]_vars

\* the loop has ended; of two intersecting aliases of equal length the one
\* with the lower start is kept and the other is not
C17_Witness ==
    /\ pc = "filter"
    /\ i = Len(found_mentions)
    /\ \E j, k \in DOMAIN found_mentions :
           /\ j < k
           /\ Overlap(found_mentions[j], found_mentions[k])
           /\ Len(found_mentions[j].alias) = Len(found_mentions[k].alias)
           /\ found_mentions[j] \in ToSet(filtered_mentions)
           /\ found_mentions[k] \notin ToSet(filtered_mentions)

\* C13: every CartItem of a cart parse_order returns has an integer
\* quantity of at least 1, whatever the text (a digit string such as "0"
\* before the mention included).
C13_QuantityAtLeastOne ==
    \A k \in DOMAIN results :
        ~ results[k].raised =>
            \A j \in DOMAIN results[k].value.items :
                /\ results[k].value.items[j].quantity \in Int
                /\ results[k].value.items[j].quantity >= 1

\* run_evaluation has ended in an exception
Aborted == run \in {"NameError", "TypeError"}

\* C12: when parse_order raises for one scenario, run_evaluation uses an
\* empty Cart as the scenario's actual cart, records the scenario as a
\* failed (not exact-match) result and goes on with the remaining scenarios
\* instead of aborting.
C12_RaisingScenarioIsRecorded ==
    \A k \in DOMAIN results :
        results[k].raised =>
            /\ ~ Aborted
            /\ Len(report) >= k =>
                   /\ report[k].actual = to_dict(EmptyCart)
                   /\ ~ report[k].metrics.exact_match

(***************************************************************************)
(* Claims about parse_order.                                               *)
(***************************************************************************)
\* C3: the mentions _find_all_items keeps have pairwise disjoint character
\* spans, at every point of the overlap loop and after it, also when the
\* loop removes an accepted mention from the list it is iterating.
C3_DisjointSpans ==
    \A j, k \in DOMAIN filtered_mentions :
        j # k => ~ Overlap(filtered_mentions[j], filtered_mentions[k])

\* the loop has ended, it removed an accepted mention on its way, and it
\* keeps two mentions or more
C3_Witness ==
    /\ pc = "filter"
    /\ i = Len(found_mentions)
    /\ removals > 0
    /\ Len(filtered_mentions) >= 2

\* an occurrence s of a shorter alias lies inside the occurrence l of a
\* longer alias of another item
Inside(s, l) ==
    /\ l.start <= s.start
    /\ s.end <= l.end
    /\ Len(s.alias) < Len(l.alias)
    /\ s.item.sku # l.item.sku

\* exactly one CartItem comes from the mentions that intersect the span of
\* l, and it has the sku of l's item (pcart holds one item per kept mention
\* until merge_duplicates)
OneItemFor(l) ==
    LET hit == {k \in DOMAIN filtered_mentions : Overlap(filtered_mentions[k], l)}
    IN  /\ Cardinality(hit) = 1
        /\ \A k \in hit : pcart.items[k].sku = l.item.sku

\* no occurrence of another alias at least as long as l's intersects l
Uncontested(l) ==
    \A k \in DOMAIN found_mentions :
        LET m == found_mentions[k]
        IN  (m # l /\ Overlap(m, l)) => Len(m.alias) < Len(l.alias)

\* C4 as stated: when an occurrence of a shorter alias lies inside an
\* occurrence of a longer alias of another item, parse_order yields exactly
\* one CartItem for that span, with the sku of the longer alias's item,
\* whatever the registration order.
C4_LongerAliasWins ==
    pc = "merge" =>
        \A j, k \in DOMAIN found_mentions :
            Inside(found_mentions[j], found_mentions[k]) => OneItemFor(found_mentions[k])

\* C4 as amended: the same, for a longer occurrence that no occurrence of
\* another alias at least as long intersects.
C4_LongerAliasWinsUncontested ==
    pc = "merge" =>
        \A j, k \in DOMAIN found_mentions :
            (Inside(found_mentions[j], found_mentions[k]) /\ Uncontested(found_mentions[k]))
                => OneItemFor(found_mentions[k])

\* "latte" inside an uncontested "pumpkin spice latte", the latte item
\* registered before the pumpkin spice latte item
C4_Witness ==
    /\ pc = "merge"
    /\ normalizer.menu = LatteMenuReversed
    /\ \E j, k \in DOMAIN found_mentions :
           /\ Inside(found_mentions[j], found_mentions[k])
           /\ Uncontested(found_mentions[k])
           /\ found_mentions[j].alias = Spell["latte"]
           /\ found_mentions[k].alias = Spell["pumpkin spice latte"]

\* the fields of a CartItem the scenarios give
Line(sku, quantity, size, modifiers, price) ==
    [sku |-> sku, quantity |-> quantity, size |-> size, modifiers |-> modifiers,
     price |-> price]
LineOf(item) == Line(item.sku, item.quantity, item.size, item.modifiers, item.price)
LinesOf(c) == [k \in 1..Len(c.items) |-> LineOf(c.items[k])]

\* the only call of the scenario was given words and has returned or raised
Parsed(words) == scenario.inputs = <<words>> /\ Len(results) = 1

\* C5: with the small menu, "two medium regular brewed coffees with cream"
\* gives exactly one item {COF001, quantity 2, size medium, modifiers
\* [cream], price 2.09} and total 4.18.
C5_CoffeeScenario ==
    (normalizer.menu = SMALL_MENU
        /\ Parsed(<<"two", "medium", "regular", "brewed", "coffees", "with", "cream">>))
    => /\ ~ results[1].raised
       /\ LinesOf(results[1].value) = <<Line("COF001", 2, "medium", <<"cream">>, Dec(209))>>
       /\ results[1].value.total = Dec(418)

\* C6: "a chocolate donut with sprinkles and a raspberry donut" gives exactly
\* two items, {DON002, 1, no size, [sprinkles], 1.09} and {DON003, 1, no
\* size, [], 1.09}, and total 2.18.
C6_DonutScenario ==
    (normalizer.menu = SMALL_MENU
        /\ Parsed(<<"a", "chocolate", "donut", "with", "sprinkles", "and", "a",
                    "raspberry", "donut">>))
    => /\ ~ results[1].raised
       /\ LinesOf(results[1].value) =
              << Line("DON002", 1, None, <<"sprinkles">>, Dec(109)),
                 Line("DON003", 1, None, <<>>, Dec(109)) >>
       /\ results[1].value.total = Dec(218)

\* what C7 compares of an item: sku, quantity, size, modifier set, price
Content(item) ==
    <<item.sku, item.quantity, item.size, ToSet(item.modifiers), item.price>>
Count(items, v) == Cardinality({k \in DOMAIN items : Content(items[k]) = v})
SameMultiset(a, b) ==
    \A v \in {Content(a[k]) : k \in DOMAIN a} \cup {Content(b[k]) : k \in DOMAIN b} :
        Count(a, v) = Count(b, v)

\* C7: two texts that differ only in the order of their two non-overlapping
\* mentions give the same multiset of CartItems.
C7_SwapMentions ==
    (scenario.kind = "swap" /\ Len(results) = 2)
    => /\ ~ results[1].raised
       /\ ~ results[2].raised
       /\ SameMultiset(results[1].value.items, results[2].value.items)

\* C8: parse_order raises for no input, and a call that found no mention
\* returns a Cart without items and with total 0.
C8_NeverRaises ==
    /\ \A k \in DOMAIN results : ~ results[k].raised
    /\ (pc = "idle" /\ results # <<>> /\ found_mentions = <<>>)
           => results[Len(results)].value = EmptyCart

\* the words of the window that precede the mention m itself
WordsBefore(t, m) == Split(Slice(t, Max2(0, m.start - ContextBefore), m.start))

\* the nearest number word or digit word among the last words before m
NearestQuantity(t, m) ==
    LET words == WordsBefore(t, m)
    IN  ScanQuantity(words, Len(words), Max2(1, Len(words) - QuantityWords + 1))

\* C18: the quantity of the CartItem built for an accepted mention is the
\* value of the nearest number word or all-digit word among the up-to-5
\* words that immediately precede that mention in its window, and 1 when
\* there is none, also when the alias text occurs more than once in the
\* window.
C18_QuantityPrecedesMention ==
    pc = "merge" =>
        \A k \in DOMAIN filtered_mentions :
            LET q == NearestQuantity(text, filtered_mentions[k])
            IN  ~ q.raised => pcart.items[k].quantity = q.value

\* the entries of the size-synonym table whose synonym occurs as a whole
\* word in the window of mention m
SynonymsIn(nz, t, m) ==
    {j \in DOMAIN nz.size_map : SearchWord(ContextOf(t, m), Spell[nz.size_map[j].key])}

\* C19: the size of the CartItem of a mention is null for an item without
\* size variations; for an item with size variations it is the canonical
\* size of the first synonym, in the declared order of the size-synonym
\* table, that occurs as a whole word in the mention's window, and with no
\* such synonym the default size of the item's category, or "medium" when
\* the category has no default.
C19_SizeOfMention ==
    pc = "merge" =>
        \A k \in DOMAIN filtered_mentions :
            LET m    == filtered_mentions[k]
                size == pcart.items[k].size
                syn  == SynonymsIn(normalizer, text, m)
                defs == normalizer.menu.default_sizes
            IN  /\ m.item.size_variations = <<>> => size = None
                /\ (m.item.size_variations # <<>> /\ syn # {}) =>
                       \E j \in syn : /\ \A h \in syn : j <= h
                                      /\ size = normalizer.size_map[j].value
                /\ (m.item.size_variations # <<>> /\ syn = {}) =>
                       \/ \E d \in DOMAIN defs :
                              defs[d].key = m.item.category /\ size = defs[d].value
                       \/ /\ \A d \in DOMAIN defs : defs[d].key # m.item.category
                          /\ size = "medium"

\* a cart is built for a mention whose window holds two synonyms of two
\* sizes, the one that comes first in the text being later in the table
C19_Witness ==
    /\ pc = "merge"
    /\ \E k \in DOMAIN filtered_mentions :
           LET m   == filtered_mentions[k]
               syn == SynonymsIn(normalizer, text, m)
               at(j) == FindIter(ContextOf(text, m), Spell[normalizer.size_map[j].key], 0)[1]
           IN  /\ m.item.size_variations # <<>>
               /\ \E j, h \in syn :
                      /\ j < h
                      /\ at(h) < at(j)
                      /\ \A g \in syn : j <= g
                      /\ normalizer.size_map[j].value # normalizer.size_map[h].value
                      /\ pcart.items[k].size = normalizer.size_map[j].value

\* the distinct (sku, size, sorted modifiers) keys of the lines of cart c
\* that have a quantity of 1 or more
KeysOf(c) ==
    { <<c.items[k].sku, c.items[k].size, SortedBy("str", c.items[k].modifiers)>> :
          k \in {j \in DOMAIN c.items : c.items[j].quantity >= 1} }

\* 2PR/(P+R) in float arithmetic for the key sets A and E
F1OfSets(A, E) ==
    IF A = {} /\ E = {} THEN FlInt(1)
    ELSE IF E = {} THEN 0
    ELSE CHOOSE f \in
           { IF FlAdd(P, R) = 0 THEN 0 ELSE FlDiv(FlMul(FlTimes(P, R), 2), FlAdd(P, R)) :
             P \in {IF A = {} THEN 0 ELSE FlDiv(Cardinality(A \cap E), Cardinality(A))},
             R \in {FlDiv(Cardinality(A \cap E), Cardinality(E))} } : TRUE

\* the lists of lines that differ from those of c in one line, which has
\* another quantity, 1 or more on both sides
Requantified(c) ==
    { [items |-> [c.items EXCEPT ![x[1]] = x[2]]] :
          x \in { y \in (DOMAIN c.items) \X EvalPool :
                      /\ c.items[y[1]].quantity >= 1
                      /\ y[2].quantity >= 1
                      /\ [c.items[y[1]] EXCEPT !.quantity = 1] = [y[2] EXCEPT !.quantity = 1] } }

\* C21: calculate_f1 depends only on the sets of distinct (sku, size,
\* sorted modifiers) keys of the lines of quantity 1 or more of the two
\* carts: 1.0 when both sets are empty, 0.0 when only the expected set is
\* empty, else 2PR/(P+R) with P = |A n E|/|A| (0 for an empty A) and
\* R = |A n E|/|E|, 0 when P+R = 0; another quantity of 1 or more on any
\* line gives the same score.
C21_F1OfKeySets ==
    verdict.op = "calculate_f1" =>
        /\ \A A \in {KeysOf(verdict.actual)}, E \in {KeysOf(verdict.expected)} :
               verdict.result.value = F1OfSets(A, E)
        /\ \A swapped \in {calculate_f1(verdict.expected, verdict.actual)} :
               \A d \in Requantified(verdict.actual) :
                   /\ calculate_f1(d, verdict.expected) = verdict.result.value
                   /\ calculate_f1(verdict.expected, d) = swapped

\* calculate_f1 returned a score strictly between 0 and 1 for an actual
\* cart with a line of quantity 2 whose key the expected cart has too
C21_Witness ==
    /\ verdict.op = "calculate_f1"
    /\ verdict.result.value > 0
    /\ verdict.result.value < FlInt(1)
    /\ \E k \in DOMAIN verdict.actual.items :
           /\ verdict.actual.items[k].quantity = 2
           /\ MergeKey(verdict.actual.items[k]) \in Entities(verdict.expected.items)

\* the SKUs of cart c, each as many times as the quantity of its line, sorted
SortedSkus(c) ==
    SortedBy("str", [k \in 1..Len(ExpandSkus(c.items)) |-> ExpandSkus(c.items)[k]])

\* the positions, within the shorter of the two, at which s and t agree
AgreeAt(s, t) == {k \in 1..Min2(Len(s), Len(t)) : s[k] = t[k]}

\* C22: calculate_item_accuracy is the number of positions at which the
\* sorted SKUs of the actual cart (each repeated by its quantity) and the
\* sorted SKUs of the expected cart agree, over the shorter length, divided
\* by the length of the expected sequence; with an empty expected sequence
\* it is 1.0 for an empty actual sequence and 0.0 otherwise; it lies
\* between 0 and 1.
C22_ItemAccuracy ==
    verdict.op = "calculate_item_accuracy" =>
        LET a == SortedSkus(verdict.actual)
            e == SortedSkus(verdict.expected)
            v == verdict.result.value
        IN  /\ e # <<>> => v = FlDiv(Cardinality(AgreeAt(a, e)), Len(e))
            /\ (e = <<>> /\ a = <<>>) => v = FlInt(1)
            /\ (e = <<>> /\ a # <<>>) => v = 0
            /\ 0 <= v
            /\ v <= FlInt(1)

\* an accuracy strictly between 0 and 1 for two SKU sequences of different
\* lengths that sorting changes
C22_Witness ==
    /\ verdict.op = "calculate_item_accuracy"
    /\ verdict.result.value > 0
    /\ verdict.result.value < FlInt(1)
    /\ Len(SortedSkus(verdict.actual)) # Len(SortedSkus(verdict.expected))
    /\ SortedSkus(verdict.actual) # ExpandSkus(verdict.actual.items)

\* the assignments to alias_map in the order the items of the menu make
\* them: for each item its name, then its aliases
AliasRegistrations(menu) ==
    IF menu.items = <<>> THEN <<>>
    ELSE LET of(k) == <<KV(LowerStr(Spell[menu.items[k].name]), menu.items[k])>>
                      \o [a \in 1..Len(menu.items[k].aliases) |->
                             KV(LowerStr(Spell[menu.items[k].aliases[a]]), menu.items[k])]
             RECURSIVE upto(_)
             upto(k) == IF k = 0 THEN <<>> ELSE upto(k - 1) \o of(k)
         IN  upto(Len(menu.items))

\* the assignments to modifier_map, item after item
SynonymRegistrations(menu) ==
    IF menu.items = <<>> THEN <<>>
    ELSE LET of(k) == [a \in 1..Len(menu.items[k].modifier_synonyms) |->
                          KV(LowerStr(Spell[menu.items[k].modifier_synonyms[a].key]),
                             menu.items[k].modifier_synonyms[a].value)]
             RECURSIVE upto(_)
             upto(k) == IF k = 0 THEN <<>> ELSE upto(k - 1) \o of(k)
         IN  upto(Len(menu.items))

\* index d holds each key of regs once, with the value of its last
\* registration, and nothing else
LastWins(d, regs) ==
    /\ {d[k].key : k \in DOMAIN d} = {regs[r].key : r \in DOMAIN regs}
    /\ \A j, k \in DOMAIN d : d[j].key = d[k].key => j = k
    /\ \A k \in DOMAIN d :
           \E r \in DOMAIN regs :
               /\ regs[r] = d[k]
               /\ \A q \in DOMAIN regs : regs[q].key = d[k].key => q <= r

\* C23: in the indexes _build_indexes makes, each lowercased name or alias
\* maps to the item registered last for it in menu order (the name of an
\* item before its aliases), and each lowercased modifier synonym to the
\* canonical modifier of the last item in menu order that defines it; a
\* collision raises no error.
C23_LastRegisteredWins ==
    (scenario.kind = "index" /\ lastOp = "CartNormalizer") =>
        /\ LastWins(normalizer.alias_map, AliasRegistrations(scenario.menu))
        /\ LastWins(normalizer.modifier_map, SynonymRegistrations(scenario.menu))
        /\ normalizer.menu = scenario.menu

\* a normalizer is built for a menu in which two different items register
\* one alias and give one synonym two canonical modifiers
C23_Witness ==
    /\ scenario.kind = "index"
    /\ lastOp = "CartNormalizer"
    /\ \E q, r \in DOMAIN AliasRegistrations(scenario.menu) :
           /\ q < r
           /\ AliasRegistrations(scenario.menu)[q].key = AliasRegistrations(scenario.menu)[r].key
           /\ AliasRegistrations(scenario.menu)[q].value.sku
                  # AliasRegistrations(scenario.menu)[r].value.sku
    /\ \E q, r \in DOMAIN SynonymRegistrations(scenario.menu) :
           /\ q < r
           /\ SynonymRegistrations(scenario.menu)[q].key = SynonymRegistrations(scenario.menu)[r].key
           /\ SynonymRegistrations(scenario.menu)[q].value
                  # SynonymRegistrations(scenario.menu)[r].value

\* the identity key of a line: sku, size and set of modifiers
IdKey(item) == <<item.sku, item.size, ToSet(item.modifiers)>>

RECURSIVE FirstKeys(_, _)
\* the identity keys of items in the order of their first occurrence
FirstKeys(items, seen) ==
    IF items = <<>> THEN seen
    ELSE FirstKeys(Tail(items),
                   IF IdKey(Head(items)) \in ToSet(seen) THEN seen
                   ELSE Append(seen, IdKey(Head(items))))

RECURSIVE GroupQuantity(_, _)
\* the sum of the quantities of the lines of items that have the key
GroupQuantity(items, key) ==
    IF items = <<>> THEN 0
    ELSE (IF IdKey(Head(items)) = key THEN Head(items).quantity ELSE 0)
         + GroupQuantity(Tail(items), key)

C25_ConfirmOrder ==
    verdict.op = "confirm_order" =>
        LET before == verdict.actual
            h      == session.order_history
        IN  /\ before.items # <<>> =>
                   /\ verdict.success
                   /\ Len(h) = Len(verdict.history) + 1
                   /\ SubSeq(h, 1, Len(verdict.history)) = verdict.history
                   /\ h[Len(h)].total = before.total
                   /\ Len(h[Len(h)].items) = Len(before.items)
                   /\ \A k \in DOMAIN before.items :
                          /\ h[Len(h)].items[k].name = before.items[k].name
                          /\ h[Len(h)].items[k].quantity = before.items[k].quantity
                          /\ h[Len(h)].items[k].size = before.items[k].size
                          /\ h[Len(h)].items[k].modifiers = before.items[k].modifiers
                          /\ h[Len(h)].items[k].price = before.items[k].price
                   /\ cart.items = <<>>
                   /\ cart.total = 0
            /\ before.items = <<>> =>
                   /\ ~ verdict.success
                   /\ cart = before
                   /\ h = verdict.history

\* a second order is confirmed: order_history had an entry and the cart
\* had two lines
C25_Witness ==
    /\ verdict.op = "confirm_order"
    /\ verdict.success
    /\ Len(verdict.history) = 1
    /\ Len(verdict.actual.items) >= 2


\* C26: when a final agent transcript signals a removal and contains "now
\* you have" or "now you just have", _update_cart_from_agent_confirmation
\* leaves the cart holding exactly the items parse_agent_text extracted, one
\* line per parsed item with its name, quantity, size and price, the total
\* their sum, and a cart update emitted.
C26_AgentReplacesCart ==
    (verdict.op = "agent" /\ verdict.replace) =>
        /\ Len(cart.items) = Len(verdict.items)
        /\ \A k \in DOMAIN verdict.items :
               /\ cart.items[k].name = verdict.items[k].name
               /\ cart.items[k].quantity = verdict.items[k].quantity
               /\ cart.items[k].size = verdict.items[k].size
               /\ cart.items[k].price = verdict.items[k].price
        /\ cart.total = SumTotal(verdict.items, 0)
        /\ verdict.emitted

\* the overlap loop of the running call has ended
Resolved == pc = "filter" /\ i = Len(found_mentions)

\* m intersects one of mentions, other than m itself, whose alias is at
\* least as long
CoveredBy(m, mentions) ==
    \E a \in ToSet(mentions) : a # m /\ Overlap(m, a) /\ Len(a.alias) >= Len(m.alias)

\* C27: after overlap resolution every whole-word alias occurrence found in
\* the text is either accepted or intersects an accepted mention whose alias
\* is at least as long, also when the accepted mention that made a candidate
\* be discarded was replaced later by a longer one.
C27_NoOccurrenceLost ==
    Resolved =>
        \A k \in DOMAIN found_mentions :
            \/ found_mentions[k] \in ToSet(filtered_mentions)
            \/ CoveredBy(found_mentions[k], filtered_mentions)

\* C27 as amended: every occurrence found is accepted or intersects another
\* occurrence found whose alias is at least as long, and that occurrence is
\* an accepted mention when the loop removed no accepted mention.
C27_NoOccurrenceLostUnlessReplaced ==
    Resolved =>
        \A k \in DOMAIN found_mentions :
            \/ found_mentions[k] \in ToSet(filtered_mentions)
            \/ /\ CoveredBy(found_mentions[k], found_mentions)
               /\ removals = 0 => CoveredBy(found_mentions[k], filtered_mentions)

\* the loop has ended without removing an accepted mention and has
\* discarded a candidate
C27_Witness ==
    /\ Resolved
    /\ removals = 0
    /\ \E k \in DOMAIN found_mentions : found_mentions[k] \notin ToSet(filtered_mentions)

\* the modifiers of a menu entry: its explicit modifiers and the canonical
\* values of its own modifier_synonyms
OwnModifiers(entry) ==
    ToSet(entry.modifiers)
        \cup {entry.modifier_synonyms[k].value : k \in DOMAIN entry.modifier_synonyms}

\* the menu entries with the sku of a CartItem
EntriesOf(menu, item) ==
    {menu.items[k] : k \in {j \in DOMAIN menu.items : menu.items[j].sku = item.sku}}

\* C28: every modifier of a CartItem that parse_order returns is one of the
\* explicit modifiers of the item's own menu entry or a canonical value of
\* that entry's modifier_synonyms; a modifier phrase said for another item in
\* the same context window is not attached to it.
C28_ModifiersOfOwnEntry ==
    \A k \in DOMAIN results :
        ~ results[k].raised =>
            \A j \in DOMAIN results[k].value.items :
                \A entry \in EntriesOf(normalizer.menu, results[k].value.items[j]) :
                    ToSet(results[k].value.items[j].modifiers) \subseteq OwnModifiers(entry)

\* C29: whenever process_cart_operation returns after a remove that changed
\* the cart (a line removed, a quantity reduced, "remove all", "keep only"),
\* the cart's total is the sum of price * quantity over the items left.
C29_TotalAfterRemove ==
    (/\ verdict.op = "process_cart_operation"
     /\ verdict.operation = "remove"
     /\ cart.items # verdict.before.items)
        => cart.total = SumTotal(cart.items, 0)

\* an utterance says "don't want" or "don't need"
Declines(words) ==
    \/ Contains(LowerStr(RawText(words)), Spell["don't want"])
    \/ Contains(LowerStr(RawText(words)), Spell["don't need"])

\* an utterance says "remove", "delete" or "take out"
SaysRemove(words) ==
    AnyIn(LowerStr(RawText(words)), <<"remove", "delete", "take out">>)

\* C30: detect_intent never returns ADD for an utterance that contains
\* "don't want" or "don't need", and returns REMOVE with confidence 0.95 for
\* every utterance that contains "remove", "delete" or "take out", whatever
\* other keywords it contains.
C30_IntentPriority ==
    verdict.op = "process_cart_operation" =>
        /\ Declines(verdict.words) => verdict.intent.key # "add"
        /\ SaysRemove(verdict.words) => verdict.intent = KV("remove", Fraction(95, 100))

====
